---- MODULE Spec2Model ----
(***************************************************************************)
(* Model of the diagnostic rule engine (support_app/expert_engine.py) and  *)
(* of the rule catalog tooling (support_app/rule_import.py).               *)
(*                                                                         *)
(* Python values are tagged records [k, n, d, s, items]:                   *)
(*   k = "bool" | "int" | "float"   the number n/d (True = 1, False = 0)   *)
(*   k = "str"                      s is the sequence of its characters    *)
(*   k = "none"                     None                                   *)
(*   k = "list"                     items is the sequence of its items     *)
(* Floats are modelled as exact rationals n/d in lowest terms, d > 0.      *)
(***************************************************************************)
EXTENDS Integers, Sequences, FiniteSets, TLC

VARIABLES RULES, facts, matches, result, rule, eval_res, cond, ret, conf_in, conf_out, pc,
          rules_in, validated, existing, incoming, merged, files, loaded, proc, reqs, lists

engineVars == <<RULES, facts, matches, result, rule, eval_res, cond, ret, conf_in, conf_out>>
toolVars == <<rules_in, validated, existing, incoming, merged, files, loaded, proc>>
callVars == <<reqs, lists>>
vars == <<engineVars, pc, toolVars, callVars>>

----------------------------------------------------------------------------
(* Rational arithmetic standing for Python float arithmetic.               *)

Abs(x) == IF x < 0 THEN -x ELSE x

RECURSIVE GCD(_, _)
GCD(a, b) == IF b = 0 THEN a ELSE GCD(b, a % b)

Rat(n, d) ==
    LET s == IF d < 0 THEN -1 ELSE 1
        g == GCD(Abs(n), Abs(d))
    IN  [n |-> (s * n) \div g, d |-> (s * d) \div g]

RZero == [n |-> 0, d |-> 1]
ROne == [n |-> 1, d |-> 1]
RLe(a, b) == a.n * b.d <= b.n * a.d
RLt(a, b) == a.n * b.d < b.n * a.d
REq(a, b) == a.n * b.d = b.n * a.d
RAdd(a, b) == Rat(a.n * b.d + b.n * a.d, a.d * b.d)
RMul(a, b) == Rat(a.n * b.n, a.d * b.d)
RDiv(a, b) == Rat(a.n * b.d, a.d * b.n)

----------------------------------------------------------------------------
(* Python values.                                                          *)

PyBool(b) == [k |-> "bool", n |-> IF b THEN 1 ELSE 0, d |-> 1, s |-> <<>>, items |-> <<>>]
PyInt(i) == [k |-> "int", n |-> i, d |-> 1, s |-> <<>>, items |-> <<>>]
PyFloat(n, d) == [k |-> "float", n |-> Rat(n, d).n, d |-> Rat(n, d).d, s |-> <<>>, items |-> <<>>]
PyStr(chars) == [k |-> "str", n |-> 0, d |-> 1, s |-> chars, items |-> <<>>]
PyNone == [k |-> "none", n |-> 0, d |-> 1, s |-> <<>>, items |-> <<>>]
PyList(items) == [k |-> "list", n |-> 0, d |-> 1, s |-> <<>>, items |-> items]

IsNumber(v) == v.k \in {"bool", "int", "float"}
NumOf(v) == [n |-> v.n, d |-> v.d]
FloatVal(r) == [k |-> "float", n |-> r.n, d |-> r.d, s |-> <<>>, items |-> <<>>]

(* The characters of the model's strings, in code-point order.             *)
Alphabet == <<"-", ".", "0", "1", "2", "5", "a", "f">>
Ord(ch) == CHOOSE i \in 1..Len(Alphabet) : Alphabet[i] = ch
Digits == {"0", "1", "2", "5"}
DigitVal(ch) == CASE ch = "0" -> 0 [] ch = "1" -> 1 [] ch = "2" -> 2 [] ch = "5" -> 5

RECURSIVE Pow10(_)
Pow10(k) == IF k = 0 THEN 1 ELSE 10 * Pow10(k - 1)

RECURSIVE DigitsVal(_)
DigitsVal(s) ==
    IF Len(s) = 0 THEN 0
    ELSE 10 * DigitsVal(SubSeq(s, 1, Len(s) - 1)) + DigitVal(s[Len(s)])

AllDigits(s) == \A i \in 1..Len(s) : s[i] \in Digits
HasDot(s) == \E i \in 1..Len(s) : s[i] = "."
Unsigned(s) == IF Len(s) > 0 /\ s[1] = "-" THEN SubSeq(s, 2, Len(s)) ELSE s
Sign(s) == IF Len(s) > 0 /\ s[1] = "-" THEN -1 ELSE 1

(* int(s): an optional sign followed by one or more digits.                *)
IntParses(s) == Len(Unsigned(s)) > 0 /\ AllDigits(Unsigned(s))
IntOf(s) == Sign(s) * DigitsVal(Unsigned(s))

(* float(s) for a string holding a '.': digits '.' digits, one digit at    *)
(* least, an optional sign.                                                *)
DotPos(s) == CHOOSE i \in 1..Len(s) : s[i] = "."
FloatParses(s) ==
    LET u == Unsigned(s) IN
    /\ HasDot(u)
    /\ LET p == DotPos(u)
           ip == SubSeq(u, 1, p - 1)
           fp == SubSeq(u, p + 1, Len(u))
       IN  AllDigits(ip) /\ AllDigits(fp) /\ Len(ip) + Len(fp) > 0
FloatOfStr(s) ==
    LET u == Unsigned(s)
        p == DotPos(u)
        ip == SubSeq(u, 1, p - 1)
        fp == SubSeq(u, p + 1, Len(u))
    IN  Rat(Sign(s) * (DigitsVal(ip) * Pow10(Len(fp)) + DigitsVal(fp)), Pow10(Len(fp)))

(* float(x) as the engine and the validator call it: a number converts,    *)
(* a numeric string parses, everything else raises.                        *)
FloatRaises(v) ==
    CASE IsNumber(v) -> FALSE
      [] v.k = "str" -> ~(IntParses(v.s) \/ FloatParses(v.s))
      [] OTHER -> TRUE
FloatOf(v) ==
    CASE IsNumber(v) -> NumOf(v)
      [] v.k = "str" /\ FloatParses(v.s) -> FloatOfStr(v.s)
      [] v.k = "str" /\ IntParses(v.s) -> Rat(IntOf(v.s), 1)
      [] OTHER -> RZero

----------------------------------------------------------------------------
(* Comparison of Python values.  An outcome is "true", "false" or "raise". *)

Out(b) == IF b THEN "true" ELSE "false"

RECURSIVE StrLt(_, _)
StrLt(a, b) ==
    IF Len(b) = 0 THEN FALSE
    ELSE IF Len(a) = 0 THEN TRUE
    ELSE IF a[1] # b[1] THEN Ord(a[1]) < Ord(b[1])
    ELSE StrLt(Tail(a), Tail(b))

IsSubstring(b, a) ==
    \E i \in 0..(Len(a) - Len(b)) : SubSeq(a, i + 1, i + Len(b)) = b

ScalarEq(a, b) ==
    CASE IsNumber(a) /\ IsNumber(b) -> REq(NumOf(a), NumOf(b))
      [] a.k = "str" /\ b.k = "str" -> a.s = b.s
      [] a.k = "none" /\ b.k = "none" -> TRUE
      [] OTHER -> FALSE

PyEq(a, b) ==
    IF a.k = "list" /\ b.k = "list"
    THEN Len(a.items) = Len(b.items)
         /\ \A i \in 1..Len(a.items) : ScalarEq(a.items[i], b.items[i])
    ELSE ScalarEq(a, b)

OrdNum(op, x, y) ==
    CASE op = "<" -> RLt(x, y)
      [] op = "<=" -> RLe(x, y)
      [] op = ">" -> RLt(y, x)
      [] op = ">=" -> RLe(y, x)

OrdStr(op, x, y) ==
    CASE op = "<" -> StrLt(x, y)
      [] op = "<=" -> ~StrLt(y, x)
      [] op = ">" -> StrLt(y, x)
      [] op = ">=" -> ~StrLt(x, y)

ScalarOrd(op, a, b) ==
    CASE IsNumber(a) /\ IsNumber(b) -> Out(OrdNum(op, NumOf(a), NumOf(b)))
      [] a.k = "str" /\ b.k = "str" -> Out(OrdStr(op, a.s, b.s))
      [] OTHER -> "raise"

PyOrd(op, a, b) ==
    IF a.k = "list" /\ b.k = "list"
    THEN LET m == IF Len(a.items) < Len(b.items) THEN Len(a.items) ELSE Len(b.items)
             diff == {i \in 1..m : ~ScalarEq(a.items[i], b.items[i])}
         IN  IF diff = {}
             THEN Out(OrdNum(op, Rat(Len(a.items), 1), Rat(Len(b.items), 1)))
             ELSE LET i == CHOOSE j \in diff : \A h \in diff : j <= h
                  IN  ScalarOrd(op, a.items[i], b.items[i])
    ELSE ScalarOrd(op, a, b)

Truthy(v) ==
    CASE IsNumber(v) -> v.n # 0
      [] v.k = "none" -> FALSE
      [] v.k = "list" -> Len(v.items) > 0
      [] OTHER -> Len(v.s) > 0

PyIn(a, b) ==
    CASE b.k = "str" -> IF a.k = "str" THEN Out(IsSubstring(a.s, b.s)) ELSE "raise"
      [] b.k = "list" -> Out(\E i \in 1..Len(b.items) : PyEq(a, b.items[i]))
      [] OTHER -> "raise"

(* The operator table.                                                     *)
OPS == {"==", "!=", ">=", "<=", ">", "<", "in", "contains", "is_true", "is_false"}

OpApply(op, a, b) ==
    CASE op = "==" -> Out(PyEq(a, b))
      [] op = "!=" -> Out(~PyEq(a, b))
      [] op \in {">=", "<=", ">", "<"} -> PyOrd(op, a, b)
      [] op = "in" -> IF a.k = "none" THEN "false" ELSE PyIn(a, b)
      [] op = "contains" ->
            IF a.k = "str" /\ b.k = "str" THEN Out(IsSubstring(b.s, a.s)) ELSE "false"
      [] op = "is_true" -> Out(Truthy(a))
      [] op = "is_false" -> Out(~Truthy(a))

----------------------------------------------------------------------------
(* Conditions, rules and fact mappings.                                    *)
(*                                                                         *)
(* A fact mapping is a function from a set of fact names to values.  A     *)
(* condition is a record [k |-> "dict", type, op, value, weight]; a key    *)
(* that is missing from the mapping holds Absent.  type and op are         *)
(* strings; the token "UNHASHABLE" stands for a value such as a list that  *)
(* cannot be looked up in a dict, and "NONE" for None.                     *)

Absent == "ABSENT"
Unhashable == "UNHASHABLE"
PyAbsent == [k |-> "absent", n |-> 0, d |-> 1, s |-> <<>>, items |-> <<>>]

Cond(t, op, v, w) == [k |-> "dict", type |-> t, op |-> op, value |-> v, weight |-> w]

(* The result of a call: either it raised, or it returned val.             *)
Raised(dflt) == [raised |-> TRUE, val |-> dflt]
Returned(v) == [raised |-> FALSE, val |-> v]

(* Variant: every numeric string is parsed as an integer.                  *)
CoerceIntOnly(fact_val, val) ==
    IF fact_val.k = "str" /\ IsNumber(val) /\ IntParses(fact_val.s)
    THEN PyInt(IntOf(fact_val.s))
    ELSE fact_val

(* Numeric coercion of a string fact compared with a number.               *)
Coerce(fact_val, val) ==
    IF fact_val.k = "str" /\ IsNumber(val)
    THEN IF HasDot(fact_val.s)
         THEN IF FloatParses(fact_val.s) THEN FloatVal(FloatOfStr(fact_val.s)) ELSE fact_val
         ELSE IF IntParses(fact_val.s) THEN PyInt(IntOf(fact_val.s)) ELSE fact_val
    ELSE fact_val

(* Variant: a missing fact is read as None, as facts.get(t) would give.     *)
check_condition_get(fs, c) ==
    IF c.k # "dict" THEN Raised(FALSE)
    ELSE
    LET t == c.type
        op == IF c.op = Absent THEN "==" ELSE c.op
        val == IF c.value = PyAbsent THEN PyNone ELSE c.value
        fact_val == IF t \in DOMAIN fs THEN fs[t] ELSE PyNone
    IN  IF t = Unhashable \/ op = Unhashable THEN Raised(FALSE)
        ELSE IF op \notin OPS THEN Returned(FALSE)
        ELSE Returned(OpApply(op, Coerce(fact_val, val), val) = "true")

check_condition(fs, c) ==
    IF c.k # "dict" THEN Raised(FALSE)
    ELSE
    LET t == c.type
        op == IF c.op = Absent THEN "==" ELSE c.op
        val == IF c.value = PyAbsent THEN PyNone ELSE c.value
    IN  IF t = Unhashable THEN Raised(FALSE)
        ELSE IF t \notin DOMAIN fs THEN Returned(FALSE)
        ELSE IF op = Unhashable THEN Raised(FALSE)
        ELSE IF op \notin OPS THEN Returned(FALSE)
        ELSE Returned(OpApply(op, Coerce(fs[t], val), val) = "true")

(* _normalize_confidence of the engine.                                    *)
Half == [n |-> 1, d |-> 2]
Hundred == [n |-> 100, d |-> 1]

(* Variant: percentages above 100 are scaled instead of clamped.            *)
normalize_confidence_noclamp(c) ==
    IF FloatRaises(c) THEN Half
    ELSE LET cf == FloatOf(c) IN
         IF RLe(cf, RZero) THEN RZero
         ELSE IF RLt(ROne, cf) THEN RDiv(cf, Hundred)
         ELSE cf

normalize_confidence(c) ==
    IF FloatRaises(c) THEN Half
    ELSE LET cf == FloatOf(c) IN
         IF RLe(cf, RZero) THEN RZero
         ELSE IF RLt(ROne, cf) /\ RLe(cf, Hundred) THEN RDiv(cf, Hundred)
         ELSE IF RLt(Hundred, cf) THEN ROne
         ELSE cf

(* The items a for loop over v visits, or a raise when v is not iterable.  *)
IterRaises(v) == v.k \notin {"list", "str", "absent"}
IterItems(v) ==
    CASE v.k = "list" -> v.items
      [] v.k = "str" -> [i \in 1..Len(v.s) |-> PyStr(<<v.s[i]>>)]
      [] OTHER -> <<>>

(* The first loop of evaluate_rule after its first k conditions.           *)
RECURSIVE CondLoop(_, _, _)
CondLoop(conds, fs, k) ==
    IF k = 0
    THEN [raised |-> FALSE, total_weight |-> RZero, matched_weight |-> RZero,
          matched |-> <<>>, unmatched |-> <<>>]
    ELSE LET a == CondLoop(conds, fs, k - 1)
             c == conds[k]
         IN  IF a.raised THEN a
             ELSE IF c.k # "dict" THEN [a EXCEPT !.raised = TRUE]
             ELSE LET wv == IF c.weight = PyAbsent THEN PyFloat(1, 1) ELSE c.weight IN
                  IF FloatRaises(wv) THEN [a EXCEPT !.raised = TRUE]
                  ELSE LET w == FloatOf(wv)
                           ok == check_condition(fs, c)
                       IN  IF ok.raised THEN [a EXCEPT !.raised = TRUE]
                           ELSE IF ok.val
                           THEN [a EXCEPT !.total_weight = RAdd(@, w),
                                          !.matched_weight = RAdd(@, w),
                                          !.matched = Append(@, c)]
                           ELSE [a EXCEPT !.total_weight = RAdd(@, w),
                                          !.unmatched = Append(@, c)]

(* The negation loop: stops at the first not_condition that matches.       *)
RECURSIVE NegLoop(_, _, _)
NegLoop(negs, fs, i) ==
    IF i > Len(negs) THEN "false"
    ELSE LET ok == check_condition(fs, negs[i]) IN
         IF ok.raised THEN "raise"
         ELSE IF ok.val THEN "true"
         ELSE NegLoop(negs, fs, i + 1)

NoEval ==
    [raised |-> TRUE, matched_conditions |-> <<>>, unmatched_conditions |-> <<>>,
     total_weight |-> RZero, matched_weight |-> RZero, match_ratio |-> RZero,
     confidence |-> RZero, score |-> RZero, negation_triggered |-> FALSE]

(* Variant: a rule without weight matches vacuously.                       *)
MatchRatioVacuous(matched_weight, total_weight) ==
    IF REq(total_weight, RZero) THEN ROne ELSE RDiv(matched_weight, total_weight)

(* matched_weight / total_weight, 0.0 when total_weight == 0.               *)
MatchRatio(matched_weight, total_weight) ==
    IF REq(total_weight, RZero) THEN RZero ELSE RDiv(matched_weight, total_weight)

(* Variant: a negation hit halves the ratio instead of zeroing it.         *)
ForcedRatioPenalty(neg_triggered, ratio) ==
    IF neg_triggered THEN RDiv(ratio, [n |-> 2, d |-> 1]) ELSE ratio

ForcedRatio(neg_triggered, ratio) == IF neg_triggered THEN RZero ELSE ratio

evaluate_rule(r, fs) ==
    IF IterRaises(r.conditions) THEN NoEval
    ELSE
    LET conds == IterItems(r.conditions)
        a == CondLoop(conds, fs, Len(conds))
    IN  IF a.raised \/ IterRaises(r.not_conditions) THEN NoEval
        ELSE
        LET neg == NegLoop(IterItems(r.not_conditions), fs, 1) IN
        IF neg = "raise" THEN NoEval
        ELSE
        LET neg_triggered == (neg = "true")
            ratio == MatchRatio(a.matched_weight, a.total_weight)
            match_ratio == ForcedRatio(neg_triggered, ratio)
            confidence == normalize_confidence(
                              IF r.confidence = PyAbsent THEN PyFloat(1, 2) ELSE r.confidence)
        IN  [raised |-> FALSE,
             matched_conditions |-> a.matched,
             unmatched_conditions |-> a.unmatched,
             total_weight |-> a.total_weight,
             matched_weight |-> a.matched_weight,
             match_ratio |-> match_ratio,
             confidence |-> confidence,
             score |-> RMul(confidence, match_ratio),
             negation_triggered |-> neg_triggered]

----------------------------------------------------------------------------
(* The diagnosis ranker.                                                   *)
(*                                                                         *)
(* A rule is a record [id, name, confidence, evidence, remedy, conditions, *)
(* not_conditions]; id is NoId and name is Absent when the key is missing. *)

NoId == -1
SentinelId == 100
(* Variant: the threshold is one half.                                     *)
SCORE_THRESHOLD_HALF == [n |-> 1, d |-> 2]

SCORE_THRESHOLD == [n |-> 1, d |-> 4]
TopN == 3

Rule(id, name, confidence, conditions, not_conditions) ==
    [k |-> "dict", id |-> id, name |-> name, confidence |-> confidence,
     evidence |-> "evidence", remedy |-> "remedy",
     conditions |-> conditions, not_conditions |-> not_conditions]

(* Variant: the match ratio is reported as the score.                      *)
DiagnosisRatioAsScore(r, e) ==
    [id |-> r.id, name |-> r.name, confidence |-> e.confidence,
     evidence |-> r.evidence, remedy |-> r.remedy,
     match_ratio |-> e.match_ratio, score |-> e.match_ratio,
     matched_conditions |-> e.matched_conditions,
     unmatched_conditions |-> e.unmatched_conditions]

Diagnosis(r, e) ==
    [id |-> r.id, name |-> r.name, confidence |-> e.confidence,
     evidence |-> r.evidence, remedy |-> r.remedy,
     match_ratio |-> e.match_ratio, score |-> e.score,
     matched_conditions |-> e.matched_conditions,
     unmatched_conditions |-> e.unmatched_conditions]

(* Variant: a zero score counts as a candidate.                            *)
IsCandidateOrZero(score) == RLe(RZero, score)

IsCandidate(score) == RLt(RZero, score)

(* The scoring loop of run_diagnosis over the first k rules.               *)
(* What one pass of the scoring loop appends to matches.                   *)
MatchOf(r, fs) ==
    IF r.id = SentinelId THEN <<>>
    ELSE LET e == evaluate_rule(r, fs) IN
         IF e.raised THEN <<>>
         ELSE IF ~IsCandidate(e.score) THEN <<>>
         ELSE IF r.id = NoId \/ r.name = Absent THEN <<>>
         ELSE <<Diagnosis(r, e)>>

(* matches after the passes for rules[lo..hi], in catalog order (the       *)
(* range is halved to keep the evaluation shallow).                        *)
RECURSIVE MatchesIn(_, _, _, _)
MatchesIn(rules, fs, lo, hi) ==
    IF lo > hi THEN <<>>
    ELSE IF lo = hi THEN MatchOf(rules[lo], fs)
    ELSE LET mid == (lo + hi) \div 2
         IN  MatchesIn(rules, fs, lo, mid) \o MatchesIn(rules, fs, mid + 1, hi)

Matches(rules, fs, k) == MatchesIn(rules, fs, 1, k)

(* Variant: the threshold is exclusive.                                    *)
AboveThresholdStrict(score) == RLt(SCORE_THRESHOLD, score)

AboveThreshold(score) == RLe(SCORE_THRESHOLD, score)

(* Variant: an item goes ahead of the items placed with the same score.    *)
InsertByScoreUnstable(sorted, m) ==
    LET ahead == {i \in 1..Len(sorted) : RLt(m.score, sorted[i].score)}
        p == Cardinality(ahead)
    IN  SubSeq(sorted, 1, p) \o <<m>> \o SubSeq(sorted, p + 1, Len(sorted))

(* sorted(ms, key=score, reverse=True): stable, so an item goes after the  *)
(* items already placed whose score is at least its own.                   *)
InsertByScore(sorted, m) ==
    LET ahead == {i \in 1..Len(sorted) : RLe(m.score, sorted[i].score)}
        p == Cardinality(ahead)
    IN  SubSeq(sorted, 1, p) \o <<m>> \o SubSeq(sorted, p + 1, Len(sorted))

RECURSIVE SortedByScore(_)
SortedByScore(ms) ==
    IF Len(ms) = 0 THEN <<>>
    ELSE InsertByScore(SortedByScore(SubSeq(ms, 1, Len(ms) - 1)), ms[Len(ms)])

(* Variant: the weak-signal list is not truncated.                         *)
HeadAll(ms) == ms

Head3(ms) == SubSeq(ms, 1, IF Len(ms) < TopN THEN Len(ms) ELSE TopN)

(* The first rule at or after i whose id is missing (x['id'] raises) or    *)
(* is the id looked for.                                                   *)
FirstWithId(rules, i, id) ==
    LET hits == {j \in i..Len(rules) : rules[j].id \in {NoId, id}} IN
    IF hits = {} THEN [found |-> FALSE, raised |-> FALSE, at |-> 0]
    ELSE LET j == CHOOSE h \in hits : \A g \in hits : h <= g IN
         IF rules[j].id = NoId THEN [found |-> FALSE, raised |-> TRUE, at |-> j]
         ELSE [found |-> TRUE, raised |-> FALSE, at |-> j]

(* Variant: the fallback is looked up under id 0.                          *)
FallbackWrongId(rules, i) == FirstWithId(rules, i, 0)

(* next((x for x in RULES if x['id'] == 100), None)                        *)
Fallback(rules, i) == FirstWithId(rules, i, SentinelId)

FallbackDiagnosis(fb) ==
    [id |-> fb.id, name |-> fb.name,
     confidence |-> normalize_confidence(
                        IF fb.confidence = PyAbsent THEN PyFloat(1, 5) ELSE fb.confidence),
     evidence |-> fb.evidence, remedy |-> fb.remedy,
     match_ratio |-> RZero, score |-> RZero,
     matched_conditions |-> <<>>, unmatched_conditions |-> <<>>]

(* What run_diagnosis returns once its scoring loop has filled ms.         *)
Ranked(rules, ms) ==
    LET IsAbove(m) == AboveThreshold(m.score)
        matches_above == SelectSeq(ms, IsAbove)
    IN  IF Len(matches_above) > 0 THEN Returned(SortedByScore(matches_above))
        ELSE IF Len(ms) > 0 THEN Returned(Head3(SortedByScore(ms)))
        ELSE LET f == Fallback(rules, 1) IN
             IF f.raised THEN Raised(<<>>)
             ELSE IF f.found THEN Returned(<<FallbackDiagnosis(rules[f.at])>>)
             ELSE Returned(<<>>)

----------------------------------------------------------------------------
(* _normalize_confidence_raw of the catalog validator: a value or None.    *)

normalize_confidence_raw(c) ==
    IF FloatRaises(c) THEN PyNone
    ELSE LET cf == FloatOf(c) IN
         IF RLe(RZero, cf) /\ RLe(cf, ROne) THEN FloatVal(cf)
         ELSE IF RLt(ROne, cf) /\ RLe(cf, Hundred) THEN FloatVal(RDiv(cf, Hundred))
         ELSE IF RLt(Hundred, cf) THEN FloatVal(ROne)
         ELSE PyNone

(* The weight check of validate_rules: float(c.get('weight', 1.0)) raising  *)
(* is the only weight it reports.                                          *)
weight_issue(c) == FloatRaises(IF c.weight = PyAbsent THEN PyFloat(1, 1) ELSE c.weight)

----------------------------------------------------------------------------
(* The catalog validator (support_app/rule_import.py).                     *)
(*                                                                         *)
(* An entry of a catalog is a rule record; k is the Python type of the     *)
(* entry ("dict" for a mapping).  The id of a mapping is a number, NoId    *)
(* (no id, or None) or ListId (a list, which cannot be hashed).            *)

ListId == -2

NonDictRule(v) == [Rule(NoId, Absent, PyAbsent, PyAbsent, PyAbsent) EXCEPT !.k = v.k]

(* One line of the issue list: what was found, at which entry (its index   *)
(* before the id is known, its id after), at which condition.              *)
Issue(kind, at, j) == [kind |-> kind, at |-> at, cond |-> j]

(* Variant: a missing op is reported but not filled in.                    *)
validate_condition_no_op(c) ==
    IF c.k # "dict" THEN c
    ELSE LET w == IF c.weight = PyAbsent THEN PyFloat(1, 1) ELSE c.weight
         IN  [c EXCEPT !.weight = IF FloatRaises(w) THEN PyFloat(1, 1)
                                  ELSE FloatVal(FloatOf(w))]

(* The condition as the loop leaves it: op and weight are filled in.       *)
validate_condition(c) ==
    IF c.k # "dict" THEN c
    ELSE LET w == IF c.weight = PyAbsent THEN PyFloat(1, 1) ELSE c.weight
         IN  [c EXCEPT !.op = IF c.op = Absent THEN "==" ELSE c.op,
                       !.weight = IF FloatRaises(w) THEN PyFloat(1, 1)
                                  ELSE FloatVal(FloatOf(w))]

condition_issues(c, rid, j) ==
    IF c.k # "dict" THEN <<Issue("condition not a dict", rid, j)>>
    ELSE (IF c.type = Absent THEN <<Issue("condition missing type", rid, j)>> ELSE <<>>)
         \o (IF c.op = Absent THEN <<Issue("condition missing op", rid, j)>> ELSE <<>>)
         \o (IF weight_issue(c) THEN <<Issue("condition invalid weight", rid, j)>> ELSE <<>>)

RECURSIVE ConditionIssues(_, _, _)
ConditionIssues(cs, rid, j) ==
    IF j = 0 THEN <<>>
    ELSE ConditionIssues(cs, rid, j - 1) \o condition_issues(cs[j], rid, j - 1)

(* The outcome of one entry: it raises, or it adds issues and at most one  *)
(* rule to the output.                                                     *)
Skipped(issues, seen) == [raised |-> FALSE, kept |-> <<>>, issues |-> issues, seen |-> seen]

(* Variant: a repeated id is reported and its entry left out.              *)
validate_entry_dedup(r, i, seen) ==
    IF r.k # "dict" THEN Skipped(<<Issue("not a dict", i, 0)>>, seen)
    ELSE IF r.id = NoId THEN Skipped(<<Issue("missing id", i, 0)>>, seen)
    ELSE IF r.id \in seen THEN Skipped(<<Issue("duplicate id", r.id, 0)>>, seen)
    ELSE [raised |-> FALSE, kept |-> <<r>>, issues |-> <<>>, seen |-> seen \cup {r.id}]

validate_entry(r, i, seen) ==
    IF r.k # "dict" THEN Skipped(<<Issue("not a dict", i, 0)>>, seen)
    ELSE IF r.id = NoId THEN Skipped(<<Issue("missing id", i, 0)>>, seen)
    ELSE IF r.id = ListId THEN [raised |-> TRUE, kept |-> <<>>, issues |-> <<>>, seen |-> seen]
    ELSE LET rid == r.id
             conf == IF r.confidence = PyAbsent THEN PyFloat(1, 2) ELSE r.confidence
             norm == normalize_confidence_raw(conf)
             conds == IF r.conditions = PyAbsent THEN PyList(<<>>) ELSE r.conditions
             cs == IF conds.k = "list" THEN conds.items ELSE <<>>
         IN  [raised |-> FALSE,
              kept |-> <<[r EXCEPT !.confidence = IF norm = PyNone THEN FloatVal(Half) ELSE norm,
                                   !.conditions = PyList([j \in 1..Len(cs) |->
                                                             validate_condition(cs[j])])]>>,
              issues |->
                  (IF rid \in seen THEN <<Issue("duplicate id", rid, 0)>> ELSE <<>>)
                  \o (IF r.name \in {Absent, ""} THEN <<Issue("missing name", rid, 0)>> ELSE <<>>)
                  \o (IF norm = PyNone THEN <<Issue("invalid confidence", rid, 0)>> ELSE <<>>)
                  \o (IF conds = PyNone THEN <<Issue("conditions is None", rid, 0)>>
                       ELSE IF conds.k # "list" THEN <<Issue("conditions not a list", rid, 0)>>
                       ELSE <<>>)
                  \o ConditionIssues(cs, rid, Len(cs)),
              seen |-> seen \cup {rid}]

NoneValidated == [raised |-> FALSE, normalized |-> <<>>, issues |-> <<>>, seen |-> {}]

RECURSIVE ValidateLoop(_, _)
ValidateLoop(rules, n) ==
    IF n = 0 THEN NoneValidated
    ELSE LET p == ValidateLoop(rules, n - 1) IN
         IF p.raised THEN p
         ELSE LET e == validate_entry(rules[n], n - 1, p.seen) IN
              [raised |-> e.raised, normalized |-> p.normalized \o e.kept,
               issues |-> p.issues \o e.issues, seen |-> e.seen]

(* validate_rules(rules): the pair (normalized, issues), or an exception   *)
(* that leaves the caller with neither.                                    *)
validate_rules(rules) ==
    LET v == ValidateLoop(rules, Len(rules)) IN
    IF v.raised THEN [NoneValidated EXCEPT !.raised = TRUE] ELSE v

(* The rule records as the call leaves them.  The condition loop writes op *)
(* and weight into the condition mappings it was given (c['op'] = ...,     *)
(* c['weight'] = ...), for every entry the loop over the rules reached     *)
(* before it returned or raised; nr = dict(r) copies the rule only after.  *)
conditions_after(r) ==
    IF r.k = "dict" /\ r.id \notin {NoId, ListId} /\ r.conditions.k = "list"
    THEN LET cs == r.conditions.items IN
         [r EXCEPT !.conditions = PyList([j \in 1..Len(cs) |-> validate_condition(cs[j])])]
    ELSE r

RulesAfter(rules) ==
    LET raising == {i \in 1..Len(rules) : rules[i].k = "dict" /\ rules[i].id = ListId}
    IN  [i \in 1..Len(rules) |->
            IF \A s \in raising : i < s THEN conditions_after(rules[i]) ELSE rules[i]]

(* merge_rules(existing, new).  by_id is a function from ids to rules.     *)
(* An existing entry that is no mapping or has no id raises (r['id']), an  *)
(* incoming one is passed over; a list as id raises in both (a dict key    *)
(* must be hashable).                                                      *)
EmptyById == <<>>

(* Variant: an id already in by_id keeps its rule.                         *)
PutFirst(by_id, r) ==
    [i \in DOMAIN by_id \cup {r.id} |-> IF i \in DOMAIN by_id THEN by_id[i] ELSE r]

Put(by_id, r) ==
    [i \in DOMAIN by_id \cup {r.id} |-> IF i = r.id THEN r ELSE by_id[i]]

HasId(r) == r.k = "dict" /\ r.id # NoId

RECURSIVE ExistingById(_, _)
ExistingById(rules, n) ==
    IF n = 0 THEN EmptyById ELSE Put(ExistingById(rules, n - 1), rules[n])

RECURSIVE MergeLoop(_, _, _)
MergeLoop(by_id, new, n) ==
    IF n = 0 THEN by_id
    ELSE LET b == MergeLoop(by_id, new, n - 1) IN
         IF HasId(new[n]) THEN Put(b, new[n]) ELSE b

(* Variant: the ids in descending order.                                   *)
RECURSIVE SortedIdsDescending(_)
SortedIdsDescending(S) ==
    IF S = {} THEN <<>>
    ELSE LET m == CHOOSE x \in S : \A y \in S : x >= y
         IN  <<m>> \o SortedIdsDescending(S \ {m})

RECURSIVE SortedIds(_)
SortedIds(S) ==
    IF S = {} THEN <<>>
    ELSE LET m == CHOOSE x \in S : \A y \in S : x <= y
         IN  <<m>> \o SortedIds(S \ {m})

MergeRaises(old, new) ==
    \/ \E i \in 1..Len(old) : ~HasId(old[i]) \/ old[i].id = ListId
    \/ \E i \in 1..Len(new) : HasId(new[i]) /\ new[i].id = ListId

merge_rules(old, new) ==
    IF MergeRaises(old, new) THEN [raised |-> TRUE, val |-> <<>>]
    ELSE LET by_id == MergeLoop(ExistingById(old, Len(old)), new, Len(new))
             ids == SortedIds(DOMAIN by_id)
         IN  [raised |-> FALSE, val |-> [i \in 1..Len(ids) |-> by_id[ids[i]]]]

(* load_rules(path).  A file is there or not; its text is JSON (which a    *)
(* YAML parser reads too), YAML only, or neither; doc is what its text     *)
(* parses to: k its Python type, for a mapping whether it has the key      *)
(* rules, rk the type of the value under that key, items the rules (of a   *)
(* list, or of the list under rules), nkeys the number of keys.            *)
Doc(k, has_rules, rk, items, nkeys) ==
    [k |-> k, has_rules |-> has_rules, rk |-> rk, items |-> items, nkeys |-> nkeys]

ListDoc(items) == Doc("list", FALSE, Absent, items, 0)
RulesDoc(items) == Doc("dict", TRUE, "list", items, 1)
NoDoc == Doc("none", FALSE, Absent, <<>>, 0)

File(exists, syntax, doc) == [exists |-> exists, syntax |-> syntax, doc |-> doc]
NoFile == File(FALSE, Absent, NoDoc)

(* loaded['rules'], whatever its type.                                     *)
RulesOf(doc) == Doc(doc.rk, FALSE, Absent, doc.items, 0)

LoadError(e) == [raised |-> TRUE, error |-> e, val |-> NoDoc]
Loaded(v) == [raised |-> FALSE, error |-> Absent, val |-> v]

load_rules(f, yaml) ==
    IF ~f.exists THEN LoadError("FileNotFoundError")
    ELSE IF yaml /\ f.syntax # Absent /\ f.doc.k = "dict" /\ f.doc.has_rules
         THEN Loaded(RulesOf(f.doc))
    ELSE IF yaml /\ f.syntax # Absent /\ f.doc.k = "list" THEN Loaded(f.doc)
    ELSE IF f.syntax = "json" THEN Loaded(f.doc)
    ELSE LoadError("ValueError")

(* Iterating a loaded value: the items of a list, the keys of a mapping    *)
(* (strings), and a TypeError for a number or None.                        *)
Iterable(v) == v.k \in {"list", "dict"}
EntriesOf(v) ==
    IF v.k = "list" THEN v.items ELSE [i \in 1..v.nkeys |-> NonDictRule(PyStr(<<>>))]

----------------------------------------------------------------------------
(* Bounds and input domains.                                               *)

MaxRules == 4
MaxConds == 2
MaxConf == 102

Str1 == <<"1">>
StrFa == <<"f", "a">>
StrA == <<"a">>
Str250 == <<"2", "5", "0">>
Str2p5 == <<"2", ".", "5">>
Str2p5p0 == <<"2", ".", "5", ".", "0">>
StrNeg5 == <<"-", "5">>

FactNames == {"a", "b"}

FactMaps(names, vals) == UNION {[S -> vals] : S \in SUBSET names}
SeqsUpTo(S, n) == UNION {[1..m -> S] : m \in 0..n}
Injective(f) == \A i, j \in DOMAIN f : f[i] = f[j] => i = j

NonDict(v) == [k |-> v.k, type |-> Absent, op |-> Absent, value |-> v, weight |-> PyAbsent]

(* The catalogs of the ranker: well-formed rules followed by the sentinel, *)
(* as in the built-in table.                                               *)
CondA1 == Cond("a", "==", PyInt(1), PyAbsent)
CondB1 == Cond("b", "==", PyInt(1), PyAbsent)
NoConds == PyList(<<>>)

Sentinel == Rule(SentinelId, "Insufficient Data to Diagnose", PyFloat(1, 5), NoConds, PyAbsent)

RulePool ==
    { Rule(1, "r1", PyFloat(9, 10), PyList(<<CondA1>>), PyAbsent),
      Rule(2, "r2", PyFloat(1, 5), PyList(<<CondA1>>), PyAbsent),
      Rule(3, "r3", PyInt(20), PyList(<<Cond("a", "!=", PyInt(0), PyAbsent)>>), PyAbsent),
      Rule(4, "r4", PyFloat(2, 5), PyList(<<CondA1, CondB1>>), PyAbsent),
      Rule(5, "r5", PyFloat(1, 2), PyList(<<CondA1, CondB1>>), PyAbsent),
      Rule(6, "r6", PyFloat(1, 5), PyList(<<Cond("a", ">=", PyInt(1), PyAbsent)>>),
           PyList(<<CondB1>>)),
      Rule(7, "r7", PyFloat(1, 10),
           PyList(<<Cond("a", "==", PyInt(1), PyInt(3)), CondB1>>), PyAbsent) }

Catalogs == {Append(c, Sentinel) : c \in {q \in SeqsUpTo(RulePool, MaxRules) : Injective(q)}}

RankFacts == FactMaps(FactNames, {PyInt(1), PyInt(0), PyStr(Str1)})

(* The rules and facts of the scorer.                                      *)
Weights == {PyAbsent, PyInt(2), PyInt(-1), PyInt(0), PyStr(StrFa)}

EvalConds ==
    {Cond(t, "==", PyInt(1), w) : t \in FactNames, w \in Weights}
        \cup {Cond("a", Unhashable, PyInt(1), PyAbsent), NonDict(PyStr(StrA))}

NegConds == {CondB1, Cond("a", "is_false", PyAbsent, PyAbsent), Cond("b", "~=", PyInt(1), PyAbsent)}

EvalRules ==
    {Rule(1, "r", cf, PyList(cs), PyList(ns)) :
        cf \in {PyFloat(1, 2), PyInt(1), PyInt(80)},
        cs \in SeqsUpTo(EvalConds, MaxConds),
        ns \in SeqsUpTo(NegConds, 1)}

EvalFacts == FactMaps(FactNames, {PyInt(1), PyInt(0)})

(* The conditions and facts of the condition evaluator.                    *)
Values ==
    { PyBool(TRUE), PyBool(FALSE), PyInt(0), PyInt(1), PyInt(250), PyFloat(5, 2),
      PyStr(<<>>), PyStr(StrFa), PyStr(StrA), PyStr(Str250), PyStr(Str2p5),
      PyStr(Str2p5p0), PyStr(StrNeg5), PyNone, PyList(<<>>),
      PyList(<<PyStr(StrFa), PyInt(1)>>) }

CondTypes == {"a", "b", Absent, Unhashable}
CondOps == OPS \cup {"~=", Absent, "NONE", Unhashable}
CheckConds == {Cond(t, op, v, PyAbsent) : t \in CondTypes, op \in CondOps, v \in Values \cup {PyAbsent}}
CheckFacts == FactMaps({"a"}, Values)

(* The inputs of confidence normalization.                                 *)
ConfInputs ==
    {PyInt(i) : i \in -2..MaxConf} \cup {PyFloat(i, 8) : i \in -4..20}
        \cup {PyFloat(1001, 10), PyBool(TRUE), PyBool(FALSE), PyNone, PyList(<<>>),
              PyStr(<<>>), PyStr(StrFa), PyStr(Str250), PyStr(Str2p5), PyStr(StrNeg5),
              PyStr(Str2p5p0)}

(* The entries given to the validator.                                     *)
MaxEntries == 3

RawRules ==
    { NonDictRule(PyInt(5)),
      Rule(NoId, "r", PyFloat(1, 2), NoConds, PyAbsent),
      Rule(ListId, "r", PyFloat(1, 2), NoConds, PyAbsent),
      Rule(1, "r1", PyFloat(9, 10), PyList(<<CondA1>>), PyAbsent),
      Rule(1, "dup", PyInt(80), PyAbsent, PyAbsent),
      Rule(0, Absent, PyStr(StrFa), PyNone, PyAbsent),
      Rule(2, "", PyAbsent, PyStr(StrA), PyAbsent),
      Rule(2, "r2", PyInt(-1),
           PyList(<<NonDict(PyInt(1)), Cond(Absent, Absent, PyInt(1), PyStr(StrFa))>>), PyAbsent),
      Rule(3, "r3", PyFloat(1, 2),
           PyList(<<Cond("a", ">=", PyInt(1), PyStr(Str2p5))>>), PyList(<<CondB1>>)),
      Rule(4, "r4", PyInt(0),
           PyList(<<Cond("a", "==", PyInt(1), PyInt(0)), Cond("b", "==", PyInt(1), PyInt(-1))>>),
           PyAbsent),
      Rule(5, "r5", PyInt(250),
           PyList(<<Cond("a", Absent, PyInt(1), PyAbsent), Cond("b", Absent, PyInt(1), PyInt(2))>>),
           PyAbsent) }

RawInputs == SeqsUpTo(RawRules, MaxEntries)

(* The catalogs given to the merge: rules with ids 1..3 in two versions    *)
(* that differ in every other field; the incoming list may also hold an    *)
(* entry that is no mapping and a mapping without id.                      *)
MaxMerge == 2

OldVersion(id) == Rule(id, "old", PyFloat(1, 2), PyList(<<CondA1>>), PyAbsent)
NewVersion(id) == Rule(id, "new", PyFloat(9, 10), NoConds, PyList(<<CondB1>>))

MergePool == {OldVersion(id) : id \in 1..3} \cup {NewVersion(id) : id \in 1..3}
ExistingCatalogs == SeqsUpTo(MergePool, MaxMerge)
IncomingLists ==
    SeqsUpTo(MergePool \cup {NonDictRule(PyStr(StrA)), Rule(NoId, "new", PyAbsent, PyAbsent, PyAbsent)},
             MaxMerge)

(* The files given to the loader: no file, a text that is neither YAML nor *)
(* JSON, and JSON and YAML texts of a list of entries, of a mapping with   *)
(* rules (a list, a number or null under it), of a mapping without rules,  *)
(* of a number and of null.                                                *)
MaxFileRules == 2

FileRules ==
    { Rule(1, "r1", PyFloat(9, 10), PyList(<<CondA1>>), PyAbsent),
      NewVersion(2),
      Rule(2, "", PyAbsent, PyStr(StrA), PyAbsent),
      Rule(ListId, "r", PyFloat(1, 2), NoConds, PyAbsent) }

FileLists == SeqsUpTo(FileRules, MaxFileRules)

Docs ==
    {ListDoc(rs) : rs \in FileLists} \cup {RulesDoc(rs) : rs \in FileLists}
        \cup {Doc("dict", TRUE, rk, <<>>, 1) : rk \in {"int", "none"}}
        \cup {Doc("dict", FALSE, Absent, <<>>, n) : n \in 0..2}
        \cup {Doc("int", FALSE, Absent, <<>>, 0), NoDoc}

LoadFiles ==
    {NoFile, File(TRUE, Absent, NoDoc)}
        \cup {File(TRUE, syntax, doc) : syntax \in {"json", "yaml"}, doc \in Docs}

(* The catalog on disk beside the program when the command line runs.      *)
DiskFiles ==
    { NoFile, File(TRUE, Absent, NoDoc),
      File(TRUE, "yaml", RulesDoc(<<OldVersion(1)>>)),
      File(TRUE, "json", RulesDoc(<<OldVersion(1), OldVersion(2)>>)),
      File(TRUE, "json", ListDoc(<<OldVersion(2), OldVersion(1)>>)) }

Commands == {Absent, "validate", "merge", "export"}

(* The files merged before the engine starts: lists of a rule with a new   *)
(* id and of rules with ids of the built-in table.                         *)
PipeRules ==
    { Rule(101, "added", PyFloat(9, 10), PyList(<<CondA1>>), PyAbsent),
      Rule(1, "replaced", PyFloat(9, 10), PyList(<<CondB1>>), PyAbsent),
      NewVersion(2) }

PipeFiles ==
    {NoFile} \cup {File(TRUE, "json", ListDoc(rs)) : rs \in SeqsUpTo(PipeRules, MaxFileRules)}

(* The callers that run a diagnosis at the same time, their catalogs and   *)
(* their facts.                                                            *)
MaxCallers == 2
MaxConcRules == 2

Callers == 1..MaxCallers
ConcCatalogs == {c \in Catalogs : Len(c) <= MaxConcRules + 1}
ConcFacts == FactMaps(FactNames, {PyInt(1)})

----------------------------------------------------------------------------
(* The built-in catalog: the 100 rules of RULES with their ids, names,     *)
(* confidences and conditions (the em dash of a name is written --; the    *)
(* evidence and remedy texts are not spelled out).                         *)

BuiltinRules ==
    << Rule(1, "Slow Network -- High Latency", PyFloat(13, 20),
         PyList(<<Cond("ping_latency", ">=", PyInt(200), PyAbsent)>>), PyAbsent),
       Rule(2, "Slow Network -- Low Throughput", PyFloat(7, 10),
         PyList(<<Cond("speed_mbps", "<", PyFloat(1, 1), PyAbsent)>>), PyAbsent),
       Rule(3, "Router/Gateway Failure", PyFloat(19, 20),
         PyList(<<Cond("gateway_ping", "==", PyStr(<<"f", "a", "i", "l">>), PyAbsent), Cond("wifi_connected", "==", PyBool(TRUE), PyAbsent)>>), PyAbsent),
       Rule(4, "DNS Resolution Failure", PyFloat(19, 20),
         PyList(<<Cond("ping_ip", "==", PyStr(<<"s", "u", "c", "c", "e", "s", "s">>), PyAbsent), Cond("ping_domain", "==", PyStr(<<"f", "a", "i", "l">>), PyAbsent)>>), PyAbsent),
       Rule(5, "IP Address Conflict", PyFloat(19, 20),
         PyList(<<Cond("ip_conflict_msg", "==", PyBool(TRUE), PyAbsent)>>), PyAbsent),
       Rule(6, "Wi-Fi Authentication Failure", PyFloat(9, 10),
         PyList(<<Cond("wifi_auth_fail", "==", PyBool(TRUE), PyAbsent)>>), PyAbsent),
       Rule(7, "DHCP Server Issue", PyFloat(9, 10),
         PyList(<<Cond("ip_address", "contains", PyStr(<<"1", "6", "9", ".", "2", "5", "4">>), PyAbsent)>>), PyAbsent),
       Rule(8, "Cable/Link Fault", PyFloat(9, 10),
         PyList(<<Cond("eth_link", "==", PyStr(<<"d", "o", "w", "n">>), PyAbsent)>>), PyAbsent),
       Rule(9, "High Packet Loss", PyFloat(17, 20),
         PyList(<<Cond("packet_loss", ">", PyInt(5), PyAbsent)>>), PyAbsent),
       Rule(10, "ISP Outage", PyFloat(9, 10),
         PyList(<<Cond("multiple_users_down", "==", PyBool(TRUE), PyAbsent), Cond("internet_status_external", "==", PyStr(<<"d", "o", "w", "n">>), PyAbsent)>>), PyAbsent),
       Rule(11, "Wi-Fi Interference (Low RSSI)", PyFloat(4, 5),
         PyList(<<Cond("rssi", "<", PyInt(-75), PyAbsent)>>), PyAbsent),
       Rule(12, "Too Many Connected Clients", PyFloat(7, 10),
         PyList(<<Cond("ap_client_count", ">", PyInt(50), PyAbsent)>>), PyAbsent),
       Rule(13, "NAT or Port Forwarding Problem", PyFloat(3, 4),
         PyList(<<Cond("inbound_unreachable", "==", PyBool(TRUE), PyAbsent)>>), PyAbsent),
       Rule(14, "Proxy Misconfiguration", PyFloat(7, 10),
         PyList(<<Cond("browser_err", "==", PyStr(<<"p", "r", "o", "x", "y", "_", "r", "e", "q", "u", "i", "r", "e", "d">>), PyAbsent), Cond("ping_domain", "==", PyStr(<<"s", "u", "c", "c", "e", "s", "s">>), PyAbsent)>>), PyAbsent),
       Rule(15, "Switch Port Disabled", PyFloat(9, 10),
         PyList(<<Cond("switch_port_status", "==", PyStr(<<"d", "i", "s", "a", "b", "l", "e", "d">>), PyAbsent)>>), PyAbsent),
       Rule(16, "Misconfigured VLAN", PyFloat(17, 20),
         PyList(<<Cond("vlan_mismatch", "==", PyBool(TRUE), PyAbsent)>>), PyAbsent),
       Rule(17, "DNS Cache Poisoning Suspected", PyFloat(13, 20),
         PyList(<<Cond("unexpected_dns_ip", "==", PyBool(TRUE), PyAbsent)>>), PyAbsent),
       Rule(18, "MTU Mismatch", PyFloat(3, 5),
         PyList(<<Cond("mtu_fail", "==", PyBool(TRUE), PyAbsent)>>), PyAbsent),
       Rule(19, "VPN Tunnel Down", PyFloat(9, 10),
         PyList(<<Cond("vpn_status", "==", PyStr(<<"d", "o", "w", "n">>), PyAbsent)>>), PyAbsent),
       Rule(20, "Slow DNS Response (High Latency)", PyFloat(7, 10),
         PyList(<<Cond("dns_latency_ms", ">", PyInt(200), PyAbsent)>>), PyAbsent),
       Rule(21, "Router CPU High Load", PyFloat(7, 10),
         PyList(<<Cond("router_cpu", ">", PyInt(90), PyAbsent)>>), PyAbsent),
       Rule(22, "ISP Throttling Detected", PyFloat(3, 5),
         PyList(<<Cond("speed_variance", "==", PyBool(TRUE), PyAbsent), Cond("speed_mbps", "<", PyInt(5), PyAbsent)>>), PyAbsent),
       Rule(23, "IPv6 Misconfiguration", PyFloat(3, 5),
         PyList(<<Cond("ipv6_error", "==", PyBool(TRUE), PyAbsent)>>), PyAbsent),
       Rule(24, "Broken ARP Cache", PyFloat(3, 5),
         PyList(<<Cond("arp_conflict", "==", PyBool(TRUE), PyAbsent)>>), PyAbsent),
       Rule(25, "Captive Portal Blocking", PyFloat(17, 20),
         PyList(<<Cond("captive_portal", "==", PyBool(TRUE), PyAbsent)>>), PyAbsent),
       Rule(26, "Misconfigured Firewall Blocking", PyFloat(9, 10),
         PyList(<<Cond("firewall_block", "==", PyBool(TRUE), PyAbsent)>>), PyAbsent),
       Rule(27, "Proxy Authentication Required", PyFloat(4, 5),
         PyList(<<Cond("browser_err", "==", PyStr(<<"p", "r", "o", "x", "y", "_", "a", "u", "t", "h">>), PyAbsent)>>), PyAbsent),
       Rule(28, "Slow Wireless Roaming", PyFloat(3, 5),
         PyList(<<Cond("roam_count", ">", PyInt(10), PyAbsent)>>), PyAbsent),
       Rule(29, "Switch Overloaded (High Errors)", PyFloat(7, 10),
         PyList(<<Cond("switch_errors", ">", PyInt(1000), PyAbsent)>>), PyAbsent),
       Rule(30, "Mis-set Default Gateway", PyFloat(4, 5),
         PyList(<<Cond("gateway_correct", "==", PyBool(FALSE), PyAbsent)>>), PyAbsent),
       Rule(31, "External Backhaul Congestion", PyFloat(3, 5),
         PyList(<<Cond("latency_internet", ">", PyInt(200), PyAbsent), Cond("latency_intranet", "<", PyInt(50), PyAbsent)>>), PyAbsent),
       Rule(32, "DNS TTL Too Low/High", PyFloat(1, 2),
         PyList(<<Cond("dns_ttl", ">", PyInt(86400), PyAbsent)>>), PyAbsent),
       Rule(33, "Routing Loop Detected", PyFloat(9, 10),
         PyList(<<Cond("traceroute_loop", "==", PyBool(TRUE), PyAbsent)>>), PyAbsent),
       Rule(34, "ARP Flood / DDoS Suspected", PyFloat(4, 5),
         PyList(<<Cond("arp_flood", "==", PyBool(TRUE), PyAbsent)>>), PyAbsent),
       Rule(35, "Poor Wi-Fi Security (Open SSID)", PyFloat(1, 2),
         PyList(<<Cond("ssid_secure", "==", PyBool(FALSE), PyAbsent)>>), PyAbsent),
       Rule(36, "Corrupted Network Adapter Driver", PyFloat(4, 5),
         PyList(<<Cond("driver_error_count", ">", PyInt(3), PyAbsent)>>), PyAbsent),
       Rule(37, "IPv4 Routing Missing", PyFloat(4, 5),
         PyList(<<Cond("route_missing", "==", PyBool(TRUE), PyAbsent)>>), PyAbsent),
       Rule(38, "AP Power Issue", PyFloat(17, 20),
         PyList(<<Cond("ap_reboot", "==", PyBool(TRUE), PyAbsent)>>), PyAbsent),
       Rule(39, "Misconfigured NAT Translation", PyFloat(7, 10),
         PyList(<<Cond("nat_mismatch", "==", PyBool(TRUE), PyAbsent)>>), PyAbsent),
       Rule(40, "Windows Network Profile Blocked", PyFloat(3, 5),
         PyList(<<Cond("windows_profile", "==", PyStr(<<"P", "u", "b", "l", "i", "c">>), PyAbsent)>>), PyAbsent),
       Rule(41, "SSL Interception/Proxy Issue", PyFloat(7, 10),
         PyList(<<Cond("https_cert_err", "==", PyBool(TRUE), PyAbsent)>>), PyAbsent),
       Rule(42, "ISP DNS Hijack", PyFloat(3, 5),
         PyList(<<Cond("dns_hijack", "==", PyBool(TRUE), PyAbsent)>>), PyAbsent),
       Rule(43, "QoS Misconfiguration", PyFloat(3, 5),
         PyList(<<Cond("qos_issues", "==", PyBool(TRUE), PyAbsent)>>), PyAbsent),
       Rule(44, "Cable Duplex Mismatch", PyFloat(7, 10),
         PyList(<<Cond("duplex_mismatch", "==", PyBool(TRUE), PyAbsent)>>), PyAbsent),
       Rule(45, "Network MTU Black Hole", PyFloat(7, 10),
         PyList(<<Cond("mtu_blackhole", "==", PyBool(TRUE), PyAbsent)>>), PyAbsent),
       Rule(46, "ARP Spoofing Attempt", PyFloat(4, 5),
         PyList(<<Cond("arp_spoof_detected", "==", PyBool(TRUE), PyAbsent)>>), PyAbsent),
       Rule(47, "Time Synchronization Error", PyFloat(1, 2),
         PyList(<<Cond("ntp_ok", "==", PyBool(FALSE), PyAbsent)>>), PyAbsent),
       Rule(48, "SSDP/UPnP Flood", PyFloat(11, 20),
         PyList(<<Cond("ssdp_flood", "==", PyBool(TRUE), PyAbsent)>>), PyAbsent),
       Rule(49, "Port Scan Detected", PyFloat(17, 20),
         PyList(<<Cond("port_scan", "==", PyBool(TRUE), PyAbsent)>>), PyAbsent),
       Rule(50, "Router Configuration Corruption", PyFloat(9, 10),
         PyList(<<Cond("router_config_good", "==", PyBool(FALSE), PyAbsent)>>), PyAbsent),
       Rule(51, "Slow Wireless Encryption Overhead", PyFloat(1, 2),
         PyList(<<Cond("old_ap_hw", "==", PyBool(TRUE), PyAbsent)>>), PyAbsent),
       Rule(52, "Mobile Carrier Data Fallback", PyFloat(3, 5),
         PyList(<<Cond("client_online_via", "==", PyStr(<<"m", "o", "b", "i", "l", "e">>), PyAbsent)>>), PyAbsent),
       Rule(53, "Blocked by Content Filter", PyFloat(7, 10),
         PyList(<<Cond("content_filter_block", "==", PyBool(TRUE), PyAbsent)>>), PyAbsent),
       Rule(54, "ISP Peering Problem", PyFloat(3, 5),
         PyList(<<Cond("as_path_latency", ">", PyInt(200), PyAbsent)>>), PyAbsent),
       Rule(55, "Low Wi-Fi Channel Width / Legacy Rates", PyFloat(3, 5),
         PyList(<<Cond("legacy_rate_enabled", "==", PyBool(TRUE), PyAbsent)>>), PyAbsent),
       Rule(56, "No Power -- PSU Fault", PyFloat(49, 50),
         PyList(<<Cond("pc_power", "==", PyBool(FALSE), PyAbsent)>>), PyAbsent),
       Rule(57, "No Display -- GPU/Monitor Issue", PyFloat(9, 10),
         PyList(<<Cond("pc_power", "==", PyBool(TRUE), PyAbsent), Cond("display", "==", PyStr(<<"n", "o">>), PyAbsent)>>), PyAbsent),
       Rule(58, "BIOS Beep Memory Error", PyFloat(19, 20),
         PyList(<<Cond("beep_codes", "contains", PyStr(<<"m", "e", "m">>), PyAbsent)>>), PyAbsent),
       Rule(59, "BIOS Beep GPU Error", PyFloat(19, 20),
         PyList(<<Cond("beep_codes", "contains", PyStr(<<"g", "p", "u">>), PyAbsent)>>), PyAbsent),
       Rule(60, "Overheating -- Fan/Heatsink Fault", PyFloat(23, 25),
         PyList(<<Cond("cpu_temp", ">", PyInt(80), PyAbsent)>>), PyAbsent),
       Rule(61, "Thermal Throttling", PyFloat(17, 20),
         PyList(<<Cond("cpu_temp", ">", PyInt(70), PyAbsent), Cond("slow_performance", "==", PyBool(TRUE), PyAbsent)>>), PyAbsent),
       Rule(62, "Failing HDD/SSD", PyFloat(19, 20),
         PyList(<<Cond("disk_health", "<", PyInt(50), PyAbsent)>>), PyAbsent),
       Rule(63, "Corrupted OS Bootloader", PyFloat(9, 10),
         PyList(<<Cond("boot_error", "contains", PyStr(<<"N", "T", "L", "D", "R">>), PyAbsent), Cond("os_present", "==", PyBool(TRUE), PyAbsent)>>), PyAbsent),
       Rule(64, "Slow Boot -- Disk or Startup Bloat", PyFloat(4, 5),
         PyList(<<Cond("slow_boot", "==", PyBool(TRUE), PyAbsent), Cond("disk_usage_startup", ">", PyInt(90), PyAbsent)>>), PyAbsent),
       Rule(65, "Application Crash -- Memory Leak", PyFloat(17, 20),
         PyList(<<Cond("app_crash", "==", PyBool(TRUE), PyAbsent), Cond("ram_usage", ">", PyInt(90), PyAbsent)>>), PyAbsent),
       Rule(66, "Application Crash -- Corrupted Install", PyFloat(4, 5),
         PyList(<<Cond("app_crash", "==", PyBool(TRUE), PyAbsent), Cond("app_reinstall_attempted", "==", PyBool(FALSE), PyAbsent)>>), PyAbsent),
       Rule(67, "Possible Malware -- Suspicious Popups & Idle CPU", PyFloat(9, 10),
         PyList(<<Cond("popups", "==", PyBool(TRUE), PyAbsent), Cond("idle_cpu", ">", PyInt(80), PyAbsent)>>), PyAbsent),
       Rule(68, "Ransomware Suspected", PyFloat(19, 20),
         PyList(<<Cond("files_encrypted", "==", PyBool(TRUE), PyAbsent)>>), PyAbsent),
       Rule(69, "Driver Conflict", PyFloat(17, 20),
         PyList(<<Cond("driver_conflict", "==", PyBool(TRUE), PyAbsent)>>), PyAbsent),
       Rule(70, "GPU Driver Crash/Black Screen", PyFloat(9, 10),
         PyList(<<Cond("gpu_reset", "==", PyBool(TRUE), PyAbsent)>>), PyAbsent),
       Rule(71, "Battery Failure (Laptop)", PyFloat(9, 10),
         PyList(<<Cond("battery_health", "<", PyInt(20), PyAbsent)>>), PyAbsent),
       Rule(72, "Thermal Paste Degraded", PyFloat(3, 5),
         PyList(<<Cond("fan_speed_ok", "==", PyBool(TRUE), PyAbsent), Cond("cpu_temp", ">", PyInt(85), PyAbsent)>>), PyAbsent),
       Rule(73, "Loose Power Connector", PyFloat(17, 20),
         PyList(<<Cond("sudden_shutdown", "==", PyBool(TRUE), PyAbsent), Cond("power_bad_report", "==", PyBool(TRUE), PyAbsent)>>), PyAbsent),
       Rule(74, "Corrupted System Files", PyFloat(4, 5),
         PyList(<<Cond("sfc_errors", ">", PyInt(0), PyAbsent)>>), PyAbsent),
       Rule(75, "Windows Update Caused Regression", PyFloat(3, 5),
         PyList(<<Cond("recent_update", "==", PyBool(TRUE), PyAbsent), Cond("issue_started_after_update", "==", PyBool(TRUE), PyAbsent)>>), PyAbsent),
       Rule(76, "File System Corruption", PyFloat(9, 10),
         PyList(<<Cond("chkdsk_errors", ">", PyInt(0), PyAbsent)>>), PyAbsent),
       Rule(77, "Malfunctioning Peripheral (USB)", PyFloat(4, 5),
         PyList(<<Cond("usb_error", "==", PyBool(TRUE), PyAbsent)>>), PyAbsent),
       Rule(78, "BIOS Settings Corrupt", PyFloat(17, 20),
         PyList(<<Cond("bios_reset_detected", "==", PyBool(TRUE), PyAbsent)>>), PyAbsent),
       Rule(79, "Windows Activation/License Problem", PyFloat(3, 5),
         PyList(<<Cond("win_activate_err", "==", PyBool(TRUE), PyAbsent)>>), PyAbsent),
       Rule(80, "Insufficient RAM for Workload", PyFloat(17, 20),
         PyList(<<Cond("ram_usage", ">", PyInt(85), PyAbsent), Cond("expected_workload", "==", PyStr(<<"n", "o", "r", "m", "a", "l">>), PyAbsent)>>), PyAbsent),
       Rule(81, "Corrupted Browser Profile", PyFloat(7, 10),
         PyList(<<Cond("browser_crash", "==", PyBool(TRUE), PyAbsent), Cond("browser_profile_old", "==", PyBool(TRUE), PyAbsent)>>), PyAbsent),
       Rule(82, "System Overloaded by Background Tasks", PyFloat(3, 4),
         PyList(<<Cond("background_cpu", ">", PyInt(60), PyAbsent)>>), PyAbsent),
       Rule(83, "Heat Sink Not Properly Mounted", PyFloat(9, 10),
         PyList(<<Cond("core_temp_delta", ">", PyInt(20), PyAbsent)>>), PyAbsent),
       Rule(84, "SSD TRIM Disabled", PyFloat(3, 5),
         PyList(<<Cond("ssd_trim_enabled", "==", PyBool(FALSE), PyAbsent)>>), PyAbsent),
       Rule(85, "Corrupted User Profile", PyFloat(7, 10),
         PyList(<<Cond("profile_corrupt", "==", PyBool(TRUE), PyAbsent)>>), PyAbsent),
       Rule(86, "Power Management Bug", PyFloat(3, 5),
         PyList(<<Cond("sleep_wake_fail", "==", PyBool(TRUE), PyAbsent)>>), PyAbsent),
       Rule(87, "Thermal Sensor Fault", PyFloat(1, 2),
         PyList(<<Cond("temp_sensor_err", "==", PyBool(TRUE), PyAbsent)>>), PyAbsent),
       Rule(88, "Firmware Bug (Device)", PyFloat(7, 10),
         PyList(<<Cond("firmware_old", "==", PyBool(TRUE), PyAbsent)>>), PyAbsent),
       Rule(89, "Corrupted Application Cache", PyFloat(3, 5),
         PyList(<<Cond("app_cache_corrupt", "==", PyBool(TRUE), PyAbsent)>>), PyAbsent),
       Rule(90, "Incompatible Peripheral Driver", PyFloat(17, 20),
         PyList(<<Cond("kernel_panic_device", "==", PyBool(TRUE), PyAbsent)>>), PyAbsent),
       Rule(91, "Slow System Due to Fragmented Disk", PyFloat(11, 20),
         PyList(<<Cond("hdd_fragmentation", ">", PyInt(30), PyAbsent)>>), PyAbsent),
       Rule(92, "Corrupted Boot Sector", PyFloat(9, 10),
         PyList(<<Cond("boot_sector_ok", "==", PyBool(FALSE), PyAbsent)>>), PyAbsent),
       Rule(93, "Security Policy Blocking Action", PyFloat(7, 10),
         PyList(<<Cond("gpo_block", "==", PyBool(TRUE), PyAbsent)>>), PyAbsent),
       Rule(94, "Unpatched Vulnerability Detected", PyFloat(4, 5),
         PyList(<<Cond("vuln_found", "==", PyBool(TRUE), PyAbsent)>>), PyAbsent),
       Rule(95, "Corrupted Network Stack (OS)", PyFloat(4, 5),
         PyList(<<Cond("network_stack_corrupt", "==", PyBool(TRUE), PyAbsent)>>), PyAbsent),
       Rule(96, "Background Update Causing Slowdown", PyFloat(3, 5),
         PyList(<<Cond("auto_update_running", "==", PyBool(TRUE), PyAbsent)>>), PyAbsent),
       Rule(97, "Insufficient Disk Space", PyFloat(9, 10),
         PyList(<<Cond("disk_free_percent", "<", PyInt(5), PyAbsent)>>), PyAbsent),
       Rule(98, "Corrupted Registry (Windows)", PyFloat(3, 4),
         PyList(<<Cond("registry_errors", ">", PyInt(0), PyAbsent)>>), PyAbsent),
       Rule(99, "Unresponsive System -- Kernel Hang", PyFloat(9, 10),
         PyList(<<Cond("kernel_hang", "==", PyBool(TRUE), PyAbsent)>>), PyAbsent),
       Rule(100, "Insufficient Data to Diagnose", PyFloat(1, 5),
         PyList(<<>>), PyAbsent) >>

(* Facts for the built-in catalog: for each rule the facts that satisfy    *)
(* its conditions, alone and together with the facts of another rule, and  *)
(* the fact sets of the engine's tests.                                    *)
SatValue(c) ==
    IF c.op = ">" THEN [c.value EXCEPT !.n = c.value.n + c.value.d]
    ELSE IF c.op = "<" THEN [c.value EXCEPT !.n = c.value.n - c.value.d]
    ELSE c.value

SatFacts(r) ==
    LET cs == r.conditions.items IN
    [t \in {cs[j].type : j \in 1..Len(cs)} |->
        SatValue(cs[CHOOSE j \in 1..Len(cs) : cs[j].type = t])]

Overlay(f, g) == [t \in DOMAIN f \cup DOMAIN g |-> IF t \in DOMAIN f THEN f[t] ELSE g[t]]

LatencyFacts == [t \in {"ping_latency"} |-> PyInt(250)]
OverheatFacts == [t \in {"cpu_temp"} |-> PyInt(90)]
DnsFacts ==
    [t \in {"ping_ip", "ping_domain"} |->
        IF t = "ping_ip" THEN PyStr(<<"s", "u", "c", "c", "e", "s", "s">>)
        ELSE PyStr(<<"f", "a", "i", "l">>)]

(* The facts that satisfy one condition of a rule and say nothing else.    *)
PartFacts(r) ==
    {[t \in {r.conditions.items[j].type} |-> SatValue(r.conditions.items[j])] :
        j \in 1..Len(r.conditions.items)}

BuiltinFacts ==
    {Overlay(SatFacts(BuiltinRules[i]), SatFacts(BuiltinRules[j])) :
        i, j \in 1..Len(BuiltinRules)}
        \cup UNION {PartFacts(BuiltinRules[i]) : i \in 1..Len(BuiltinRules)}
        \cup {LatencyFacts, OverheatFacts, DnsFacts}

----------------------------------------------------------------------------
(* The state machines.  Each specification calls one function of the       *)
(* engine; the variables of the other functions keep their initial value.  *)

NoCall == [raised |-> FALSE, val |-> <<>>]
NoRule == Rule(NoId, Absent, PyAbsent, PyAbsent, PyAbsent)
NoCond == Cond(Absent, Absent, PyAbsent, PyAbsent)

NoMerge == [raised |-> FALSE, val |-> <<>>]
NoFiles == [file |-> NoFile, disk |-> NoFile, yaml |-> FALSE]
(* The command-line process: its subcommand (Absent when it has too few    *)
(* arguments), its exit code (NoExit while it runs), what it printed,      *)
(* the exception the load of the catalog on disk ended with, and whether   *)
(* it wrote the catalog on disk.                                           *)
NoExit == -1
Proc(cmd) == [cmd |-> cmd, exit |-> NoExit, out |-> Absent, existing_error |-> Absent,
              wrote |-> FALSE]
NoProc == Proc(Absent)

EngineIdle ==
    /\ RULES = <<>> /\ facts = <<>> /\ matches = <<>> /\ result = NoCall
    /\ rule = NoRule /\ eval_res = NoEval
    /\ cond = NoCond /\ ret = NoCall
    /\ conf_in = PyNone /\ conf_out = <<>>

ToolIdle ==
    /\ rules_in = <<>> /\ validated = NoneValidated
    /\ existing = <<>> /\ incoming = <<>> /\ merged = NoMerge
    /\ files = NoFiles /\ loaded = Loaded(NoDoc) /\ proc = NoProc

CallIdle == reqs = <<>> /\ lists = <<>>

(* run_diagnosis against the catalog: the scoring loop fills the local     *)
(* list matches, the ranking policy turns it into the returned list.       *)
Init ==
    /\ RULES \in Catalogs
    /\ facts = <<>> /\ matches = <<>> /\ result = NoCall
    /\ rule = NoRule /\ eval_res = NoEval
    /\ cond = NoCond /\ ret = NoCall
    /\ conf_in = PyNone /\ conf_out = <<>>
    /\ pc = "idle"
    /\ ToolIdle /\ CallIdle

RunDiagnosis ==
    \E f \in RankFacts :
        /\ pc = "idle"
        /\ facts' = f
        /\ matches' = Matches(RULES, f, Len(RULES))
        /\ result' = Ranked(RULES, matches')
        /\ pc' = "returned"
        /\ UNCHANGED <<RULES, rule, eval_res, cond, ret, conf_in, conf_out, toolVars, callVars>>

Next == RunDiagnosis

Spec == Init /\ [][Next]_vars

(* evaluate_rule on one rule and one fact mapping.                         *)
InitEval ==
    /\ rule \in EvalRules /\ facts \in EvalFacts
    /\ RULES = <<>> /\ matches = <<>> /\ result = NoCall /\ eval_res = NoEval
    /\ cond = NoCond /\ ret = NoCall
    /\ conf_in = PyNone /\ conf_out = <<>>
    /\ pc = "call"
    /\ ToolIdle /\ CallIdle

EvaluateRule ==
    /\ pc = "call"
    /\ eval_res' = evaluate_rule(rule, facts)
    /\ pc' = "returned"
    /\ UNCHANGED <<RULES, facts, matches, result, rule, cond, ret, conf_in, conf_out, toolVars, callVars>>

NextEval == EvaluateRule

SpecEval == InitEval /\ [][NextEval]_vars

(* _check_condition on one condition and one fact mapping.                 *)
InitCond ==
    /\ cond \in CheckConds /\ facts \in CheckFacts
    /\ RULES = <<>> /\ matches = <<>> /\ result = NoCall
    /\ rule = NoRule /\ eval_res = NoEval /\ ret = NoCall
    /\ conf_in = PyNone /\ conf_out = <<>>
    /\ pc = "call"
    /\ ToolIdle /\ CallIdle

CheckCondition ==
    /\ pc = "call"
    /\ ret' = check_condition(facts, cond)
    /\ pc' = "returned"
    /\ UNCHANGED <<RULES, facts, matches, result, rule, eval_res, cond, conf_in, conf_out, toolVars, callVars>>

NextCond == CheckCondition

SpecCond == InitCond /\ [][NextCond]_vars

(* Confidence normalization applied to an input and then to its own        *)
(* output; conf_out lists the successive outputs.                          *)
InitNorm ==
    /\ conf_in \in ConfInputs /\ conf_out = <<>>
    /\ pc \in {"engine", "raw"}
    /\ RULES = <<>> /\ facts = <<>> /\ matches = <<>> /\ result = NoCall
    /\ rule = NoRule /\ eval_res = NoEval
    /\ cond = NoCond /\ ret = NoCall
    /\ ToolIdle /\ CallIdle

NormInput == IF Len(conf_out) = 0 THEN conf_in ELSE conf_out[Len(conf_out)]

NormalizeConfidence ==
    /\ pc = "engine" /\ Len(conf_out) < 2
    /\ conf_out' = Append(conf_out, FloatVal(normalize_confidence(NormInput)))
    /\ UNCHANGED <<RULES, facts, matches, result, rule, eval_res, cond, ret, conf_in, pc, toolVars, callVars>>

NormalizeConfidenceRaw ==
    /\ pc = "raw" /\ Len(conf_out) < 2
    /\ conf_out' = Append(conf_out, normalize_confidence_raw(NormInput))
    /\ UNCHANGED <<RULES, facts, matches, result, rule, eval_res, cond, ret, conf_in, pc, toolVars, callVars>>

NextNorm == NormalizeConfidence \/ NormalizeConfidenceRaw

SpecNorm == InitNorm /\ [][NextNorm]_vars

(* validate_rules on a list of entries.                                    *)
InitValidate ==
    /\ EngineIdle /\ CallIdle
    /\ rules_in \in RawInputs /\ validated = NoneValidated
    /\ existing = <<>> /\ incoming = <<>> /\ merged = NoMerge
    /\ files = NoFiles /\ loaded = Loaded(NoDoc) /\ proc = NoProc
    /\ pc = "call"

ValidateRules ==
    /\ pc = "call"
    /\ validated' = validate_rules(rules_in)
    /\ rules_in' = RulesAfter(rules_in)
    /\ pc' = "returned"
    /\ UNCHANGED <<engineVars, existing, incoming, merged, files, loaded, proc, callVars>>

NextValidate == ValidateRules

SpecValidate == InitValidate /\ [][NextValidate]_vars

(* validate_rules on a list of entries, then evaluate_rule on one of the   *)
(* rules it returned, for one fact mapping.                                *)
ScoreValidated ==
    \E i \in 1..Len(validated.normalized), f \in EvalFacts :
        /\ pc = "returned" /\ ~validated.raised
        /\ rule' = validated.normalized[i]
        /\ facts' = f
        /\ eval_res' = evaluate_rule(rule', f)
        /\ pc' = "scored"
        /\ UNCHANGED <<RULES, matches, result, cond, ret, conf_in, conf_out, toolVars, callVars>>

NextScoreValidated == ValidateRules \/ ScoreValidated

SpecScoreValidated == InitValidate /\ [][NextScoreValidated]_vars

(* merge_rules on an existing catalog and an incoming list.                *)
InitMerge ==
    /\ EngineIdle /\ CallIdle
    /\ rules_in = <<>> /\ validated = NoneValidated
    /\ existing \in ExistingCatalogs /\ incoming \in IncomingLists /\ merged = NoMerge
    /\ files = NoFiles /\ loaded = Loaded(NoDoc) /\ proc = NoProc
    /\ pc = "call"

MergeRules ==
    /\ pc = "call"
    /\ merged' = merge_rules(existing, incoming)
    /\ pc' = "returned"
    /\ UNCHANGED <<engineVars, rules_in, validated, existing, incoming, files, loaded, proc, callVars>>

NextMerge == MergeRules

SpecMerge == InitMerge /\ [][NextMerge]_vars

(* load_rules on a file, with and without a YAML parser installed.         *)
InitLoad ==
    /\ EngineIdle /\ CallIdle
    /\ rules_in = <<>> /\ validated = NoneValidated
    /\ existing = <<>> /\ incoming = <<>> /\ merged = NoMerge
    /\ files \in [file : LoadFiles, disk : {NoFile}, yaml : BOOLEAN]
    /\ loaded = Loaded(NoDoc) /\ proc = NoProc
    /\ pc = "call"

LoadRules ==
    /\ pc = "call"
    /\ loaded' = load_rules(files.file, files.yaml)
    /\ pc' = "returned"
    /\ UNCHANGED <<engineVars, rules_in, validated, existing, incoming, merged, files, proc,
                   callVars>>

NextLoad == LoadRules

SpecLoad == InitLoad /\ [][NextLoad]_vars

(* The command line: python rule_import.py <cmd> <path>.  files.file is    *)
(* the file at <path>, files.disk is rules.yaml beside the program.        *)
InitCli ==
    /\ EngineIdle /\ CallIdle
    /\ rules_in = <<>> /\ validated = NoneValidated
    /\ existing = <<>> /\ incoming = <<>> /\ merged = NoMerge
    /\ files \in [file : LoadFiles, disk : DiskFiles, yaml : BOOLEAN]
    /\ loaded = Loaded(NoDoc)
    /\ proc \in {Proc(c) : c \in Commands}
    /\ pc = "start"

(* The catalog on disk as merge takes it: an exception of the load gives   *)
(* the empty list.                                                         *)
ExistingOrEmpty(f, yaml) ==
    IF load_rules(f, yaml).raised THEN ListDoc(<<>>) ELSE load_rules(f, yaml).val

(* The merged list is dumped as it is: YAML with a YAML library, JSON      *)
(* without.                                                                *)
WrittenFile(rules, yaml) == File(TRUE, IF yaml THEN "yaml" ELSE "json", ListDoc(rules))

Main ==
    /\ pc = "start"
    /\ loaded' = IF proc.cmd = Absent THEN Loaded(NoDoc)
                 ELSE load_rules(files.file, files.yaml)
    /\ rules_in' = IF proc.cmd # Absent /\ ~loaded'.raised /\ Iterable(loaded'.val)
                   THEN EntriesOf(loaded'.val) ELSE <<>>
    /\ validated' = IF proc.cmd = Absent \/ loaded'.raised THEN NoneValidated
                    ELSE IF ~Iterable(loaded'.val) THEN [NoneValidated EXCEPT !.raised = TRUE]
                    ELSE validate_rules(rules_in')
    /\ LET merging == /\ proc.cmd = "merge"
                       /\ ~loaded'.raised /\ ~validated'.raised
           old == ExistingOrEmpty(files.disk, files.yaml)
       IN  /\ existing' = IF merging /\ Iterable(old) THEN EntriesOf(old) ELSE <<>>
           /\ incoming' = IF merging THEN validated'.normalized ELSE <<>>
           /\ merged' = IF ~merging THEN NoMerge
                        ELSE IF ~Iterable(old) THEN [raised |-> TRUE, val |-> <<>>]
                        ELSE merge_rules(existing', incoming')
           /\ files' = IF merging /\ ~merged'.raised
                       THEN [files EXCEPT !.disk = WrittenFile(merged'.val, files.yaml)]
                       ELSE files
           /\ proc' =
                IF proc.cmd = Absent THEN [proc EXCEPT !.exit = 2, !.out = "usage"]
                ELSE IF loaded'.raised THEN [proc EXCEPT !.exit = 1, !.out = "Error loading rules"]
                ELSE IF validated'.raised THEN [proc EXCEPT !.exit = 1, !.out = "Traceback"]
                ELSE IF proc.cmd = "validate" THEN
                    IF validated'.issues # <<>>
                    THEN [proc EXCEPT !.exit = 1, !.out = "Validation issues"]
                    ELSE [proc EXCEPT !.exit = 0, !.out = "No issues found."]
                ELSE IF proc.cmd = "merge" THEN
                    LET err == load_rules(files.disk, files.yaml).error IN
                    IF merged'.raised
                    THEN [proc EXCEPT !.exit = 1, !.out = "Traceback", !.existing_error = err]
                    ELSE [proc EXCEPT !.exit = 0, !.existing_error = err, !.wrote = TRUE,
                                      !.out = IF validated'.issues # <<>>
                                              THEN "Merged; validation issues"
                                              ELSE "Merged"]
                ELSE [proc EXCEPT !.exit = 2, !.out = "Unknown command"]
    /\ pc' = "exited"
    /\ UNCHANGED <<engineVars, callVars>>

NextCli == Main

SpecCli == InitCli /\ [][NextCli]_vars

(* run_diagnosis against the built-in catalog.                             *)
InitBuiltin ==
    /\ RULES = BuiltinRules
    /\ facts = <<>> /\ matches = <<>> /\ result = NoCall
    /\ rule = NoRule /\ eval_res = NoEval
    /\ cond = NoCond /\ ret = NoCall
    /\ conf_in = PyNone /\ conf_out = <<>>
    /\ pc = "idle"
    /\ ToolIdle /\ CallIdle

DiagnoseBuiltin ==
    \E f \in BuiltinFacts :
        /\ pc = "idle"
        /\ facts' = f
        /\ matches' = Matches(RULES, f, Len(RULES))
        /\ result' = Ranked(RULES, matches')
        /\ pc' = "returned"
        /\ UNCHANGED <<RULES, rule, eval_res, cond, ret, conf_in, conf_out, toolVars, callVars>>

NextBuiltin == DiagnoseBuiltin

SpecBuiltin == InitBuiltin /\ [][NextBuiltin]_vars

(* Calls of run_diagnosis in progress at the same time, interleaved at the *)
(* passes of the scoring loop.  RULES is the module's one catalog; facts,  *)
(* the loop position and matches belong to each call.                      *)
Req(f, i, at, res) == [facts |-> f, i |-> i, pc |-> at, result |-> res]
NoReq == Req(<<>>, 0, "idle", NoCall)

(* Variant: the calls append to one list.                                  *)
MatchesSlotShared(p) == CHOOSE q \in Callers : \A r \in Callers : q <= r

(* matches is a local of the call.                                         *)
MatchesSlot(p) == p

InitConc ==
    /\ RULES \in ConcCatalogs
    /\ facts = <<>> /\ matches = <<>> /\ result = NoCall
    /\ rule = NoRule /\ eval_res = NoEval
    /\ cond = NoCond /\ ret = NoCall
    /\ conf_in = PyNone /\ conf_out = <<>>
    /\ pc = "serving"
    /\ ToolIdle
    /\ reqs = [p \in Callers |-> NoReq]
    /\ lists = [p \in Callers |-> <<>>]

frameVars == <<RULES, facts, matches, result, rule, eval_res, cond, ret, conf_in, conf_out, pc,
               toolVars>>

Call(p) ==
    \E f \in ConcFacts :
        /\ reqs[p].pc = "idle"
        /\ reqs' = [reqs EXCEPT ![p] = Req(f, 1, "scoring", NoCall)]
        /\ lists' = [lists EXCEPT ![MatchesSlot(p)] = <<>>]
        /\ UNCHANGED frameVars

Score(p) ==
    /\ reqs[p].pc = "scoring" /\ reqs[p].i <= Len(RULES)
    /\ lists' = [lists EXCEPT ![MatchesSlot(p)] = @ \o MatchOf(RULES[reqs[p].i], reqs[p].facts)]
    /\ reqs' = [reqs EXCEPT ![p].i = @ + 1]
    /\ UNCHANGED frameVars

Rank(p) ==
    /\ reqs[p].pc = "scoring" /\ reqs[p].i > Len(RULES)
    /\ reqs' = [reqs EXCEPT ![p].pc = "returned",
                            ![p].result = Ranked(RULES, lists[MatchesSlot(p)])]
    /\ UNCHANGED <<lists, frameVars>>

NextConc == \E p \in Callers : Call(p) \/ Score(p) \/ Rank(p)

SpecConc == InitConc /\ [][NextConc]_vars

(* The offline merge followed by a start of the engine and a diagnosis:    *)
(* the import of expert_engine builds RULES from the table in the module.  *)
InitPipe ==
    /\ EngineIdle /\ CallIdle
    /\ rules_in = <<>> /\ validated = NoneValidated
    /\ existing = <<>> /\ incoming = <<>> /\ merged = NoMerge
    /\ files \in [file : PipeFiles, disk : DiskFiles, yaml : BOOLEAN]
    /\ loaded = Loaded(NoDoc)
    /\ proc = Proc("merge")
    /\ pc = "start"

ImportEngine ==
    /\ pc = "exited"
    /\ RULES' = BuiltinRules
    /\ pc' = "idle"
    /\ UNCHANGED <<facts, matches, result, rule, eval_res, cond, ret, conf_in, conf_out,
                   toolVars, callVars>>

NextPipe == Main \/ ImportEngine \/ RunDiagnosis

SpecPipe == InitPipe /\ [][NextPipe]_vars

----------------------------------------------------------------------------
(* Properties of the diagnosis ranker (specification Spec).                *)

Quarter == [n |-> 1, d |-> 4]
NonSentinel == {i \in 1..Len(RULES) : RULES[i].id # SentinelId}
ScoreOf(i) == evaluate_rule(RULES[i], facts).score
Scored(i) == ~evaluate_rule(RULES[i], facts).raised
PosIdx == {i \in NonSentinel : Scored(i) /\ RLt(RZero, ScoreOf(i))}
HighIdx == {i \in NonSentinel : Scored(i) /\ RLe(Quarter, ScoreOf(i))}
IdxOf(dg) == CHOOSE i \in 1..Len(RULES) : RULES[i].id = dg.id
Listed == {IdxOf(result.val[i]) : i \in 1..Len(result.val)}
Descending ==
    \A i, j \in 1..Len(result.val) :
        i < j => RLe(result.val[j].score, result.val[i].score)
Faithful ==
    \A i \in 1..Len(result.val) :
        /\ result.val[i].id # SentinelId
        /\ result.val[i].score = ScoreOf(IdxOf(result.val[i]))
        /\ result.val[i].name = RULES[IdxOf(result.val[i])].name
Min(a, b) == IF a < b THEN a ELSE b

(* C1: for every fact set, the empty one included, run_diagnosis returns   *)
(* a list of at least one diagnosis and never an empty list.               *)
C1_NeverEmpty ==
    pc = "returned" => ~result.raised /\ Len(result.val) >= 1

C1_Witness ==
    pc = "returned" /\ facts = <<>> /\ ~result.raised /\ Len(result.val) = 1

(* C2: the result is the one-element list holding the sentinel rule        *)
(* (id 100, 'Insufficient Data to Diagnose') with score 0.0, match_ratio   *)
(* 0.0 and empty matched/unmatched lists if and only if no non-sentinel    *)
(* rule scores above 0; otherwise the sentinel is not in the result.       *)
IsSentinelResult ==
    /\ Len(result.val) = 1
    /\ result.val[1].id = 100
    /\ result.val[1].name = "Insufficient Data to Diagnose"
    /\ result.val[1].score = RZero
    /\ result.val[1].match_ratio = RZero
    /\ result.val[1].matched_conditions = <<>>
    /\ result.val[1].unmatched_conditions = <<>>

C2_SentinelIff ==
    pc = "returned" =>
        /\ ~result.raised
        /\ (PosIdx = {}) <=> IsSentinelResult
        /\ PosIdx # {} => \A i \in 1..Len(result.val) : result.val[i].id # 100

C2_Witness ==
    /\ pc = "returned" /\ PosIdx = {} /\ DOMAIN facts = FactNames
    /\ Len(RULES) > 2 /\ IsSentinelResult

(* C3: when some non-sentinel rule has score >= 0.25 (inclusive), the      *)
(* result is exactly the rules with score >= 0.25, all of them and no      *)
(* other, ordered by score descending.                                     *)
C3_NormalPath ==
    pc = "returned" /\ HighIdx # {} =>
        /\ ~result.raised
        /\ Len(result.val) = Cardinality(HighIdx)
        /\ Listed = HighIdx
        /\ Faithful
        /\ Descending

C3_Witness ==
    /\ pc = "returned" /\ Cardinality(HighIdx) >= 2
    /\ \E i \in HighIdx : ScoreOf(i) = Quarter
    /\ PosIdx # HighIdx
    /\ Len(result.val) = Cardinality(HighIdx)

(* C4: when no rule reaches 0.25 but some rule scores above 0, the result  *)
(* is the three highest-scoring candidates (all when fewer than three),    *)
(* ordered by score descending, and nothing else.                          *)
C4_WeakPath ==
    pc = "returned" /\ HighIdx = {} /\ PosIdx # {} =>
        /\ ~result.raised
        /\ Len(result.val) = Min(3, Cardinality(PosIdx))
        /\ Cardinality(Listed) = Len(result.val)
        /\ Listed \subseteq PosIdx
        /\ Faithful
        /\ Descending
        /\ \A e \in PosIdx \ Listed : \A i \in Listed : RLe(ScoreOf(e), ScoreOf(i))

C4_Witness ==
    /\ pc = "returned" /\ HighIdx = {} /\ Cardinality(PosIdx) = 4
    /\ Len(result.val) = 3
    /\ \E e \in PosIdx \ Listed : \A i \in Listed : RLt(ScoreOf(e), ScoreOf(i))

----------------------------------------------------------------------------
(* Properties of the rule scorer (specification SpecEval).                 *)

RuleConds == IterItems(rule.conditions)
RuleNegs == IterItems(rule.not_conditions)
Matched(c) == check_condition(facts, c).val

RECURSIVE WeightSum(_, _)
WeightSum(cs, onlyMatched) ==
    IF Len(cs) = 0 THEN RZero
    ELSE LET c == cs[Len(cs)]
             w == IF c.weight = PyAbsent THEN ROne ELSE FloatOf(c.weight)
             rest == WeightSum(SubSeq(cs, 1, Len(cs) - 1), onlyMatched)
         IN  IF onlyMatched /\ ~Matched(c) THEN rest ELSE RAdd(rest, w)

WeightedRatio ==
    IF REq(WeightSum(RuleConds, FALSE), RZero) THEN RZero
    ELSE RDiv(WeightSum(RuleConds, TRUE), WeightSum(RuleConds, FALSE))

NegationHit == \E i \in 1..Len(RuleNegs) : Matched(RuleNegs[i])

(* C6: if an entry of not_conditions evaluates true, evaluate_rule returns *)
(* negation_triggered = true, match_ratio = 0.0 and score = 0.0, even when *)
(* every positive condition matched; if none does, negation_triggered is   *)
(* false and match_ratio is the weighted ratio.                            *)
C6_NegationVeto ==
    pc = "returned" /\ ~eval_res.raised =>
        /\ NegationHit =>
              /\ eval_res.negation_triggered
              /\ eval_res.match_ratio = RZero
              /\ eval_res.score = RZero
        /\ ~NegationHit =>
              /\ ~eval_res.negation_triggered
              /\ eval_res.match_ratio = WeightedRatio

C6_Witness ==
    /\ pc = "returned" /\ ~eval_res.raised /\ NegationHit
    /\ Len(RuleConds) = 2
    /\ \A i \in 1..Len(RuleConds) : Matched(RuleConds[i])
    /\ WeightedRatio = ROne
    /\ eval_res.negation_triggered /\ eval_res.score = RZero

(* C7: for a rule whose condition weights validate_rules accepts without   *)
(* an issue, evaluate_rule returns 0 <= match_ratio <= 1,                  *)
(* 0 <= confidence <= 1, matched_weight <= total_weight and                *)
(* score = confidence * match_ratio.                                       *)
WeightsAccepted ==
    \A i \in 1..Len(RuleConds) : RuleConds[i].k = "dict" => ~weight_issue(RuleConds[i])

C7_ScoreBounds ==
    pc = "returned" /\ WeightsAccepted /\ ~eval_res.raised =>
        /\ RLe(RZero, eval_res.match_ratio) /\ RLe(eval_res.match_ratio, ROne)
        /\ RLe(RZero, eval_res.confidence) /\ RLe(eval_res.confidence, ROne)
        /\ RLe(eval_res.matched_weight, eval_res.total_weight)
        /\ eval_res.score = RMul(eval_res.confidence, eval_res.match_ratio)
        /\ RLe(RZero, eval_res.score) /\ RLe(eval_res.score, ROne)

----------------------------------------------------------------------------
(* Properties of confidence normalization (specification SpecNorm).        *)

(* C8: normalizing a normalized confidence gives the same value as         *)
(* normalizing the input once, for numeric input of any sign and size and  *)
(* for non-numeric input.                                                  *)
C8_NormalizeIdempotent ==
    Len(conf_out) = 2 => conf_out[2] = conf_out[1]

C8_Witness ==
    /\ pc = "engine" /\ Len(conf_out) = 2
    /\ conf_in.k = "int" /\ conf_in.n > 100
    /\ conf_out[1] = FloatVal(ROne) /\ conf_out[2] = FloatVal(ROne)

----------------------------------------------------------------------------
(* Properties of the condition evaluator (specification SpecCond).         *)

EffectiveOp == IF cond.op = Absent THEN "==" ELSE cond.op

(* C9: when the condition's fact name is not a key of the fact mapping,    *)
(* the evaluator returns false whatever the operator, '!=', 'is_false' and *)
(* unknown operators included, and raises nothing.                         *)
C9_MissingFactFalse ==
    pc = "returned" /\ cond.type # Unhashable /\ cond.type \notin DOMAIN facts =>
        ~ret.raised /\ ret.val = FALSE

C9_Witness ==
    /\ pc = "returned" /\ cond.type = "b" /\ DOMAIN facts = {"a"}
    /\ cond.op = "!=" /\ cond.value = PyInt(1)
    /\ ~ret.raised /\ ret.val = FALSE

(* C10: whatever the types of the fact value and of the condition's type,  *)
(* op and value, the evaluator returns a boolean and propagates no         *)
(* exception; with an operator outside the ten-operator set the result is  *)
(* false.                                                                  *)
C10_NeverRaises ==
    pc = "returned" =>
        /\ ~ret.raised
        /\ ret.val \in BOOLEAN
        /\ cond.op = Unhashable \/ EffectiveOp \notin OPS => ret.val = FALSE

----------------------------------------------------------------------------
(* Properties of the catalog validator (specification SpecValidate).       *)

(* C11: validate_rules raises nothing, whatever the entries and the types  *)
(* of their id, name, confidence, conditions and weights, and returns the  *)
(* pair of normalized rules and issues.                                    *)
C11_ValidateNeverRaises ==
    pc = "returned" => ~validated.raised

IssuesOf(kind) == {i \in 1..Len(validated.issues) : validated.issues[i].kind = kind}
IssuesAt(kind, at) == {i \in IssuesOf(kind) : validated.issues[i].at = at}
EntriesWithId == SelectSeq(rules_in, HasId)
IdsOf(rs) == {rs[i].id : i \in 1..Len(rs)}

(* C12: the output holds exactly the entries that are mappings with an id, *)
(* in input order; an entry that is no mapping and an entry without id are *)
(* each left out with one issue; entries repeating an id are all kept and  *)
(* each repeat adds one 'duplicate id' issue.                              *)
C12_KeepsEntriesWithId ==
    pc = "returned" /\ ~validated.raised =>
        /\ Len(validated.normalized) = Len(EntriesWithId)
        /\ \A i \in 1..Len(EntriesWithId) :
              /\ validated.normalized[i].id = EntriesWithId[i].id
              /\ validated.normalized[i].name = EntriesWithId[i].name
              /\ validated.normalized[i].not_conditions = EntriesWithId[i].not_conditions
        /\ \A i \in 1..Len(rules_in) :
              /\ rules_in[i].k # "dict" =>
                    /\ Cardinality(IssuesAt("not a dict", i - 1)) = 1
                    /\ IssuesAt("missing id", i - 1) = {}
              /\ rules_in[i].k = "dict" /\ rules_in[i].id = NoId =>
                    /\ Cardinality(IssuesAt("missing id", i - 1)) = 1
                    /\ IssuesAt("not a dict", i - 1) = {}
        /\ Cardinality(IssuesOf("not a dict")) + Cardinality(IssuesOf("missing id"))
              = Len(rules_in) - Len(EntriesWithId)
        /\ Cardinality(IssuesOf("duplicate id"))
              = Len(EntriesWithId) - Cardinality(IdsOf(EntriesWithId))

C12_Witness ==
    /\ pc = "returned" /\ ~validated.raised
    /\ Len(rules_in) = 3 /\ Len(validated.normalized) = 2
    /\ \E i \in 1..3 : rules_in[i].k # "dict"
    /\ validated.normalized[1].id = validated.normalized[2].id
    /\ validated.normalized[1].name # validated.normalized[2].name
    /\ Cardinality(IssuesOf("duplicate id")) = 1

----------------------------------------------------------------------------
(* Properties of the merge (specification SpecMerge).                      *)

Max(S) == CHOOSE x \in S : \A y \in S : y <= x
IdsIn(rs) == {rs[i].id : i \in {j \in 1..Len(rs) : HasId(rs[j])}}
LastWithId(rs, id) == rs[Max({i \in 1..Len(rs) : HasId(rs[i]) /\ rs[i].id = id})]
MergedWithId(id) == {j \in 1..Len(merged.val) : merged.val[j].id = id}

(* C13: for every id of the incoming list the merged catalog holds exactly *)
(* the last incoming rule with that id, with all its fields and none of    *)
(* the rule it replaces; for every id that is in the existing catalog      *)
(* only, the existing rule is kept unchanged.                              *)
C13_LastWriteWins ==
    pc = "returned" =>
        /\ ~merged.raised
        /\ \A id \in IdsIn(incoming) :
              /\ Cardinality(MergedWithId(id)) = 1
              /\ \A j \in MergedWithId(id) : merged.val[j] = LastWithId(incoming, id)
        /\ \A id \in IdsIn(existing) \ IdsIn(incoming) :
              /\ Cardinality(MergedWithId(id)) = 1
              /\ \A j \in MergedWithId(id) : merged.val[j] = LastWithId(existing, id)

C13_Witness ==
    /\ pc = "returned" /\ ~merged.raised
    /\ existing = <<OldVersion(2), OldVersion(1)>>
    /\ incoming = <<OldVersion(1), NewVersion(1)>>
    /\ merged.val = <<NewVersion(1), OldVersion(2)>>

(* C14: the merged catalog is in strictly ascending order of id and its    *)
(* ids are the ids of the existing catalog together with those of the      *)
(* incoming list, in whatever order the two inputs are.                    *)
C14_SortedUnion ==
    pc = "returned" =>
        /\ ~merged.raised
        /\ \A i \in 1..Len(merged.val) - 1 : merged.val[i].id < merged.val[i + 1].id
        /\ IdsIn(merged.val) = IdsIn(existing) \cup IdsIn(incoming)
        /\ \A i \in 1..Len(merged.val) : HasId(merged.val[i])

C14_Witness ==
    /\ pc = "returned" /\ ~merged.raised
    /\ Len(existing) = 2 /\ existing[1].id = 3 /\ existing[2].id = 2
    /\ Len(incoming) = 2 /\ incoming[1].k # "dict" /\ incoming[2].id = 1
    /\ Len(merged.val) = 3
    /\ merged.val[1].id = 1 /\ merged.val[2].id = 2 /\ merged.val[3].id = 3

----------------------------------------------------------------------------
(* Properties of the command line (specification SpecCli) and of the       *)
(* loader (specification SpecLoad).                                        *)

Subcommand == proc.cmd \in {"validate", "merge"}

(* C15: a file that fails to load gives a non-zero exit code under both    *)
(* subcommands; validate exits 0 exactly when the file loads and the       *)
(* validation reports no issue; merge exits 0 whenever the file loads,     *)
(* issues or not.                                                          *)
C15_ExitCodes ==
    pc = "exited" /\ Subcommand =>
        /\ loaded.raised => proc.exit # 0
        /\ proc.cmd = "validate" =>
              (proc.exit = 0 <=>
                  ~loaded.raised /\ ~validated.raised /\ validated.issues = <<>>)
        /\ proc.cmd = "merge" /\ ~loaded.raised => proc.exit = 0

(* C16: every parse failure of a load the command line performs, the load  *)
(* of the catalog on disk by merge included, is reported and gives a       *)
(* non-zero exit code, and merge writes nothing after it.                  *)
C16_ParseFailureReported ==
    pc = "exited" /\ Subcommand =>
        /\ loaded.raised /\ loaded.error = "ValueError" =>
              proc.exit # 0 /\ proc.out = "Error loading rules" /\ ~proc.wrote
        /\ proc.existing_error = "ValueError" =>
              proc.exit # 0 /\ proc.out = "Error loading rules" /\ ~proc.wrote

Parses(f, yaml) == f.exists /\ (f.syntax = "json" \/ (f.syntax = "yaml" /\ yaml))
HoldsRules(doc) == doc.k = "list" \/ (doc.k = "dict" /\ doc.has_rules /\ doc.rk = "list")

(* C17: load_rules returns the rule sequence when the file parses as a     *)
(* mapping whose key rules holds a sequence or as a bare sequence, fails   *)
(* with a load error for every other file, and never returns a value that  *)
(* is not a sequence.                                                      *)
C17_LoadReturnsSequence ==
    pc = "returned" =>
        /\ Parses(files.file, files.yaml) /\ HoldsRules(files.file.doc) =>
              ~loaded.raised /\ loaded.val = ListDoc(files.file.doc.items)
        /\ ~(Parses(files.file, files.yaml) /\ HoldsRules(files.file.doc)) => loaded.raised
        /\ ~loaded.raised => loaded.val.k = "list"

----------------------------------------------------------------------------
(* Properties of the ranker on the built-in catalog (specification         *)
(* SpecBuiltin).                                                           *)

AllSatisfied(i) ==
    LET cs == RULES[i].conditions.items IN
    \A j \in 1..Len(cs) : check_condition(facts, cs[j]) = Returned(TRUE)

ListedAt(i) ==
    {j \in 1..Len(result.val) :
        /\ result.val[j].id = RULES[i].id
        /\ result.val[j].name = RULES[i].name
        /\ result.val[j].score = NumOf(RULES[i].confidence)}

(* C20: for every fact set and every built-in rule other than the sentinel *)
(* whose conditions the facts all satisfy, whatever other facts there are, *)
(* the result holds the diagnosis of that rule with a score equal to the   *)
(* rule's confidence; ping_latency = 250 alone gives 'Slow Network -- High *)
(* Latency' as the first entry.                                            *)
C20_FullMatchListed ==
    pc = "returned" =>
        /\ ~result.raised
        /\ \A i \in NonSentinel : AllSatisfied(i) => ListedAt(i) # {}
        /\ facts = LatencyFacts => 1 \in ListedAt(1)

C20_Witness ==
    /\ pc = "returned" /\ ~result.raised
    /\ AllSatisfied(4) /\ AllSatisfied(60)
    /\ Len(result.val) >= 2
    /\ result.val[1].name = "DNS Resolution Failure"
    /\ result.val[1].score = [n |-> 19, d |-> 20]
    /\ 2 \in ListedAt(60)
    /\ result.val[2].name = "Overheating -- Fan/Heatsink Fault"

----------------------------------------------------------------------------
(* Properties of concurrent calls (specification SpecConc).                *)

Alone(f) == Ranked(RULES, Matches(RULES, f, Len(RULES)))

SameAsAlone ==
    \A p \in Callers : reqs[p].pc = "returned" => reqs[p].result = Alone(reqs[p].facts)

NoWrite ==
    /\ RULES' = RULES
    /\ \A p \in Callers : reqs[p].pc # "idle" => reqs'[p].facts = reqs[p].facts

(* C18: no step of a call of run_diagnosis writes to the caller's facts or *)
(* to the catalog, and every one of any number of interleaved calls        *)
(* returns the list the same call returns when it runs alone.              *)
C18_CallsIndependent == []SameAsAlone /\ [][NoWrite]_vars

C18_Witness ==
    /\ reqs[1].pc = "returned" /\ reqs[2].pc = "scoring" /\ reqs[2].i > 1
    /\ reqs[1].facts # reqs[2].facts
    /\ Len(lists[2]) >= 1
    /\ Len(reqs[1].result.val) >= 2
    /\ reqs[1].result = Alone(reqs[1].facts)
    /\ reqs[1].result.val[1].id \notin {lists[2][j].id : j \in 1..Len(lists[2])}

----------------------------------------------------------------------------
(* Properties of the pipeline from the merge to the ranker (specification  *)
(* SpecPipe).                                                              *)

SatisfiedBy(r, f) ==
    /\ Len(r.conditions.items) > 0
    /\ \A j \in 1..Len(r.conditions.items) :
          check_condition(f, r.conditions.items[j]) = Returned(TRUE)

(* C19: the catalog the merge has written is the catalog the ranker        *)
(* evaluates once the engine has started after it: a diagnosis of facts    *)
(* that satisfy a merged rule holds that rule.                             *)
C19_MergedCatalogServed ==
    pc = "returned" /\ proc.wrote =>
        \A i \in 1..Len(merged.val) :
            SatisfiedBy(merged.val[i], facts) =>
                \E j \in 1..Len(result.val) :
                    /\ result.val[j].id = merged.val[i].id
                    /\ result.val[j].name = merged.val[i].name

----------------------------------------------------------------------------
(* Properties of validated rules under the scorer (specification           *)
(* SpecScoreValidated).                                                    *)

ConditionsOf(r) == IF r.conditions.k = "list" THEN r.conditions.items ELSE <<>>

(* C21: every rule validate_rules returns has conditions that is a         *)
(* sequence of mappings, each with an op and a numeric weight, and         *)
(* evaluate_rule on that rule raises nothing for any fact mapping, so      *)
(* run_diagnosis does not skip it.                                         *)
C21_ValidatedUsable ==
    /\ pc = "returned" /\ ~validated.raised =>
          \A i \in 1..Len(validated.normalized) :
              /\ validated.normalized[i].conditions.k = "list"
              /\ \A j \in 1..Len(ConditionsOf(validated.normalized[i])) :
                    LET c == ConditionsOf(validated.normalized[i])[j] IN
                    c.k = "dict" /\ c.op # Absent /\ IsNumber(c.weight)
    /\ pc = "scored" => ~eval_res.raised

(* C22: after validate_rules every condition of every returned rule has a  *)
(* weight that is a positive real; a weight that is not one (non-numeric,  *)
(* zero or negative) has been replaced by 1.0.                             *)
C22_PositiveWeights ==
    pc = "returned" /\ ~validated.raised =>
        \A i \in 1..Len(validated.normalized) :
            \A j \in 1..Len(ConditionsOf(validated.normalized[i])) :
                LET c == ConditionsOf(validated.normalized[i])[j] IN
                c.k = "dict" => IsNumber(c.weight) /\ RLt(RZero, NumOf(c.weight))

RawConfidence(r) == IF r.confidence = PyAbsent THEN PyFloat(1, 2) ELSE r.confidence

(* C23: validate_rules stores for every raw confidence the value the       *)
(* scorer's normalization gives for it (c <= 0 gives 0.0, 0 < c <= 1 is    *)
(* unchanged, 1 < c <= 100 gives c/100, c > 100 gives 1.0), and only a     *)
(* non-numeric confidence is reported as an issue.                         *)
C23_ConfidenceAsScorer ==
    pc = "returned" /\ ~validated.raised =>
        /\ \A i \in 1..Len(validated.normalized) :
              validated.normalized[i].confidence
                  = FloatVal(normalize_confidence(RawConfidence(EntriesWithId[i])))
        /\ \A k \in IssuesOf("invalid confidence") :
              \E i \in 1..Len(EntriesWithId) :
                  /\ EntriesWithId[i].id = validated.issues[k].at
                  /\ FloatRaises(RawConfidence(EntriesWithId[i]))

ConditionsIssuesAt(id) ==
    IssuesAt("conditions is None", id) \cup IssuesAt("conditions not a list", id)
NoSequenceAt(id) ==
    {i \in 1..Len(EntriesWithId) :
        EntriesWithId[i].id = id /\ EntriesWithId[i].conditions.k # "list"}

(* C24: a rule whose conditions field is absent, null or not a sequence is *)
(* kept with an empty sequence of conditions, and each such rule adds one  *)
(* issue about its conditions.                                             *)
C24_ConditionsCoerced ==
    pc = "returned" /\ ~validated.raised =>
        /\ \A i \in 1..Len(EntriesWithId) :
              EntriesWithId[i].conditions.k # "list" =>
                  /\ validated.normalized[i].id = EntriesWithId[i].id
                  /\ validated.normalized[i].conditions = PyList(<<>>)
        /\ \A id \in IdsOf(EntriesWithId) :
              Cardinality(ConditionsIssuesAt(id)) = Cardinality(NoSequenceAt(id))

ConditionKinds ==
    {"condition not a dict", "condition missing type", "condition missing op",
     "condition invalid weight"}
LacksOnlyOp(c) == c.k = "dict" /\ c.op = Absent /\ c.type # Absent /\ ~weight_issue(c)
IssuesOfCondition(id, j) ==
    {i \in 1..Len(validated'.issues) :
        /\ validated'.issues[i].kind \in ConditionKinds
        /\ validated'.issues[i].at = id /\ validated'.issues[i].cond = j - 1}
IdOnce(id) == Cardinality({m \in 1..Len(EntriesWithId) : EntriesWithId[m].id = id}) = 1

(* C25: a condition without op that has a type and a valid or absent       *)
(* weight gets op '==' and stays in its rule at its place, and the call    *)
(* reports exactly one issue for that condition, the missing op.           *)
C25_OpDefaulted ==
    [][pc = "call" /\ ~validated'.raised =>
          \A i \in 1..Len(EntriesWithId) :
              LET before == ConditionsOf(EntriesWithId[i])
                  after == ConditionsOf(validated'.normalized[i])
              IN  \A j \in 1..Len(before) :
                      LacksOnlyOp(before[j]) /\ IdOnce(EntriesWithId[i].id) =>
                          /\ Len(after) = Len(before)
                          /\ after[j].op = "=="
                          /\ after[j].type = before[j].type
                          /\ after[j].value = before[j].value
                          /\ Cardinality(IssuesOfCondition(EntriesWithId[i].id, j)) = 1
                          /\ \A n \in IssuesOfCondition(EntriesWithId[i].id, j) :
                                validated'.issues[n].kind = "condition missing op"]_vars

C25_Witness ==
    /\ pc = "returned" /\ ~validated.raised /\ Len(validated.normalized) = 1
    /\ Cardinality(IssuesOf("condition missing op")) = 2
    /\ Len(validated.issues) = 2
    /\ \A k \in 1..2 : ConditionsOf(validated.normalized[1])[k].op = "=="

----------------------------------------------------------------------------
(* Further properties of the condition evaluator (specification SpecCond). *)

(* C26: with the fact present, is_true matches exactly when the fact value *)
(* is the boolean true and is_false exactly when it is the boolean false;  *)
(* a number or a string satisfies neither.                                 *)
C26_BooleanOnly ==
    pc = "returned" /\ cond.type \in DOMAIN facts =>
        /\ cond.op = "is_true" =>
              ~ret.raised /\ (ret.val <=> facts[cond.type] = PyBool(TRUE))
        /\ cond.op = "is_false" =>
              ~ret.raised /\ (ret.val <=> facts[cond.type] = PyBool(FALSE))

Comparisons == {"==", "!=", ">=", "<=", ">", "<"}
NumberParses(s) == IF HasDot(s) THEN FloatParses(s) ELSE IntParses(s)
ParsedNumber(s) == IF HasDot(s) THEN FloatVal(FloatOfStr(s)) ELSE PyInt(IntOf(s))
StringAgainstNumber ==
    /\ pc = "returned" /\ cond.type \in DOMAIN facts
    /\ facts[cond.type].k = "str" /\ IsNumber(cond.value)
    /\ EffectiveOp \in Comparisons

(* C27 as stated: a string fact compared with a number gets the verdict of *)
(* the number it parses to (float with a decimal point, else integer)      *)
(* under each of ==, !=, >=, <=, >, <; a string that does not parse gives  *)
(* a non-match and no error.                                               *)
C27_Original ==
    StringAgainstNumber =>
        /\ ~ret.raised
        /\ ret.val = IF NumberParses(facts[cond.type].s)
                      THEN OpApply(EffectiveOp, ParsedNumber(facts[cond.type].s), cond.value)
                               = "true"
                      ELSE FALSE

(* C27 amended: as above, but a string that does not parse is compared as  *)
(* a string, which gives a non-match under ==, >=, <=, > and < and a match *)
(* under != (a string differs from every number); never an error.          *)
C27_StringCoercion ==
    StringAgainstNumber =>
        /\ ~ret.raised
        /\ ret.val = IF NumberParses(facts[cond.type].s)
                      THEN OpApply(EffectiveOp, ParsedNumber(facts[cond.type].s), cond.value)
                               = "true"
                      ELSE EffectiveOp = "!="

C27_WitnessParsed ==
    /\ StringAgainstNumber /\ cond.op = ">" /\ cond.value = PyInt(1)
    /\ facts[cond.type] = PyStr(Str2p5) /\ ret.val = TRUE

C27_Witness ==
    /\ StringAgainstNumber /\ cond.op = "!=" /\ cond.value = PyInt(1)
    /\ facts[cond.type] = PyStr(Str2p5p0) /\ ret.val = TRUE

----------------------------------------------------------------------------
(* Further properties of the rule scorer (specification SpecEval).         *)

NotMatched(c) == ~Matched(c)

(* C28: a rule whose total_weight is 0, a rule without conditions above    *)
(* all, gets match_ratio 0.0 and score 0.0 for every fact mapping and so   *)
(* is no candidate of run_diagnosis; matched_conditions and                *)
(* unmatched_conditions are the matching and the other conditions, each in *)
(* the order of the rule, and matched_weight is the sum of the weights of  *)
(* the matching ones.                                                      *)
C28_ZeroWeightNoScore ==
    pc = "returned" /\ ~eval_res.raised =>
        /\ REq(eval_res.total_weight, RZero) =>
              /\ eval_res.match_ratio = RZero
              /\ eval_res.score = RZero
              /\ ~IsCandidate(eval_res.score)
        /\ Len(RuleConds) = 0 => REq(eval_res.total_weight, RZero)
        /\ eval_res.matched_conditions = SelectSeq(RuleConds, Matched)
        /\ eval_res.unmatched_conditions = SelectSeq(RuleConds, NotMatched)
        /\ eval_res.total_weight = WeightSum(RuleConds, FALSE)
        /\ eval_res.matched_weight = WeightSum(RuleConds, TRUE)

C28_Witness ==
    /\ pc = "returned" /\ ~eval_res.raised
    /\ Len(RuleConds) = 0 /\ ~NegationHit
    /\ DOMAIN facts = FactNames
    /\ eval_res.confidence = ROne
    /\ eval_res.match_ratio = RZero /\ eval_res.score = RZero

----------------------------------------------------------------------------
(* Further properties of the built-in catalog (specification SpecBuiltin). *)

ThreeTenths == [n |-> 3, d |-> 10]

(* C29: with the built-in catalog every positive score is at least 0.25    *)
(* (0.3 is the lowest), so the weak-signal path is never taken: the result *)
(* is every rule with score > 0, ordered by score descending, or the lone  *)
(* sentinel.                                                               *)
C29_NoWeakPath ==
    pc = "returned" =>
        LET pos == PosIdx IN
        /\ ~result.raised
        /\ \A i \in pos : RLe(Quarter, ScoreOf(i)) /\ RLe(ThreeTenths, ScoreOf(i))
        /\ IF pos = {} THEN IsSentinelResult
           ELSE /\ Len(result.val) = Cardinality(pos)
                /\ Listed = pos
                /\ Faithful
                /\ Descending

C29_Witness ==
    /\ pc = "returned" /\ ~result.raised
    /\ Len(result.val) >= 4
    /\ result.val[Len(result.val)].score = ThreeTenths
    /\ result.val[Len(result.val)].id = 22
    /\ Len(result.val[Len(result.val)].matched_conditions) = 1
    /\ Len(result.val[Len(result.val)].unmatched_conditions) = 1

----------------------------------------------------------------------------
(* The frame of the catalog validator (specification SpecValidate).        *)

(* C30: validate_rules leaves the rule records it is given as they were:   *)
(* after the call every input rule and every condition in it has the       *)
(* fields and values it had before the call.                               *)
C30_InputUnchanged ==
    [][pc = "call" => rules_in' = rules_in]_vars

====
